---------------------------- MODULE Spec2Model ----------------------------
(***************************************************************************)
(* A model of the jitphone code-transformation service: the optimization   *)
(* pipeline and compilation cache of JITEngine, the platform adapter       *)
(* IOSTranslator, the sandbox executor behind POST /jit/execute and the    *)
(* dialect parsers.                                                        *)
(*                                                                         *)
(* Source text is modelled as a sequence of chunks.  A chunk is a string:  *)
(* a single punctuation or white-space character, a single digit, or a     *)
(* run of word characters (a keyword or an identifier).  The text a        *)
(* sequence stands for is the concatenation of its chunks, and every       *)
(* regular expression of the source is translated to a matcher over        *)
(* chunks.                                                                 *)
(***************************************************************************)
EXTENDS Integers, Sequences, FiniteSets, TLC

VARIABLES
    compilationCache,   \* JITEngine.compilationCache: cache key -> result
    stats,              \* JITEngine.stats: totalCompilations, cacheHits
    pending,            \* compile() calls suspended at `await compileWithV8`
    lastCall,           \* what the latest compile() call did and returned
    completed,          \* history: key -> result of the first compile of the
                        \* key that completed since the cache was last cleared
    session,            \* an optimizer session: a text and what was applied to it
    translationCache,   \* IOSTranslator.translationCache: cache key -> result
    clock,              \* Date.now(), counted in half hours
    translation,        \* a translate() request and what the latest call returned
    issued,             \* history: the cache keys and codes that translate() has
                        \* produced for the request
    responses,          \* the requests that the server has answered
    parsing,            \* a parser run: the source lines and the outcome
    converters,         \* conversionCache and stats of the JITConverter, the
                        \* ObjectiveCConverter and the SwiftConverter
    conversion,         \* what the latest JITConverter.convert() call did
    inflight,           \* the requests that have arrived and whose handler
                        \* has not started
    handling            \* the requests whose handler is suspended in compile(),
                        \* oldest first, one for each element of pending

engineVars == <<compilationCache, stats, pending, lastCall, completed>>

translatorVars == <<translationCache, clock, translation, issued>>

serverVars == <<converters, conversion, inflight, handling>>

vars == <<compilationCache, stats, pending, lastCall, completed, session,
          translationCache, clock, translation, issued, responses, parsing,
          converters, conversion, inflight, handling>>

\* the value of a variable that a specification does not use
Idle == "idle"

-----------------------------------------------------------------------------
(* Characters and chunks                                                   *)

\* \s
IsSpace(c) == c \in {" ", "\n"}

\* \d
IsDigit(c) == c \in {"0", "1", "2", "3", "4", "5", "6", "7", "8", "9"}

\* \w (every chunk that is neither punctuation nor white space is a run of
\* word characters)
IsWord(c) ==
    /\ c \notin {"+", "-", "*", "/", "(", ")", "{", "}", "[", "]", ";", ",",
                 ".", "=", "<", ">", "'", "^", ":", "#", "@", "!", "?", "&", "|"}
    /\ ~IsSpace(c)

\* the index of the first chunk at or after i that is not white space
RECURSIVE SkipSpaces(_, _)
SkipSpaces(s, i) ==
    IF i <= Len(s) /\ IsSpace(s[i]) THEN SkipSpaces(s, i + 1) ELSE i

\* the index after the maximal run of digits that starts at i
RECURSIVE SkipDigits(_, _)
SkipDigits(s, i) ==
    IF i <= Len(s) /\ IsDigit(s[i]) THEN SkipDigits(s, i + 1) ELSE i

\* the index after the maximal run of word chunks that starts at i
RECURSIVE SkipWord(_, _)
SkipWord(s, i) ==
    IF i <= Len(s) /\ IsWord(s[i]) THEN SkipWord(s, i + 1) ELSE i

\* the index of the first chunk c at or after i, or 0
RECURSIVE IndexOf(_, _, _)
IndexOf(s, c, i) ==
    IF i > Len(s) THEN 0
    ELSE IF s[i] = c THEN i
    ELSE IndexOf(s, c, i + 1)

\* s[i..j], empty when j < i
Slice(s, i, j) == IF j < i THEN << >> ELSE SubSeq(s, i, j)

\* String.prototype.length of the text of s, summed by halves
RECURSIVE TextLength(_)
TextLength(s) ==
    IF s = << >> THEN 0
    ELSE IF Len(s) = 1 THEN Len(s[1])
    ELSE LET h == Len(s) \div 2
         IN  TextLength(SubSeq(s, 1, h)) + TextLength(SubSeq(s, h + 1, Len(s)))


-----------------------------------------------------------------------------
(* Numbers in text: Number(digits) and String(number)                      *)

\* Number(a) of a run of digits
RECURSIVE ToNumber(_)
ToNumber(ds) ==
    LET DigitVal(c) ==
            CASE c = "0" -> 0 [] c = "1" -> 1 [] c = "2" -> 2 [] c = "3" -> 3
              [] c = "4" -> 4 [] c = "5" -> 5 [] c = "6" -> 6 [] c = "7" -> 7
              [] c = "8" -> 8 [] c = "9" -> 9
    IN  IF ds = << >> THEN 0
        ELSE 10 * ToNumber(SubSeq(ds, 1, Len(ds) - 1)) + DigitVal(ds[Len(ds)])

\* String(n) of a natural number
RECURSIVE NatChunks(_)
NatChunks(n) ==
    LET DigitChunk(d) ==
            CASE d = 0 -> "0" [] d = 1 -> "1" [] d = 2 -> "2" [] d = 3 -> "3"
              [] d = 4 -> "4" [] d = 5 -> "5" [] d = 6 -> "6" [] d = 7 -> "7"
              [] d = 8 -> "8" [] d = 9 -> "9"
    IN  IF n < 10 THEN <<DigitChunk(n)>>
        ELSE NatChunks(n \div 10) \o <<DigitChunk(n % 10)>>

\* String(n) of an integer
NumberToChunks(n) == IF n < 0 THEN <<"-">> \o NatChunks(0 - n) ELSE NatChunks(n)

-----------------------------------------------------------------------------
(* JITEngine: the optimization passes                                      *)

\* One match of /\b(\d+)\s*OP\s*(\d+)\b/ that starts at i.
FoldMatch(s, i, op) ==
    IF ~(i <= Len(s) /\ IsDigit(s[i]) /\ (i = 1 \/ ~IsWord(s[i - 1])))
    THEN [ok |-> FALSE]
    ELSE LET j == SkipDigits(s, i)
             k == SkipSpaces(s, j)
         IN  IF ~(k <= Len(s) /\ s[k] = op) THEN [ok |-> FALSE]
             ELSE LET m == SkipSpaces(s, k + 1)
                  IN  IF ~(m <= Len(s) /\ IsDigit(s[m])) THEN [ok |-> FALSE]
                      ELSE LET e == SkipDigits(s, m)
                           IN  IF e <= Len(s) /\ IsWord(s[e]) THEN [ok |-> FALSE]
                               ELSE [ok |-> TRUE, end |-> e,
                                     a |-> ToNumber(Slice(s, i, j - 1)),
                                     b |-> ToNumber(Slice(s, m, e - 1))]

\* code.replace(/\b(\d+)\s*OP\s*(\d+)\b/g, (m, a, b) => String(Number(a) OP Number(b)))
RECURSIVE FoldAll(_, _, _)
FoldAll(s, i, op) ==
    IF i > Len(s) THEN << >>
    ELSE LET m == FoldMatch(s, i, op)
             folded == CASE op = "+" -> m.a + m.b
                         [] op = "-" -> m.a - m.b
                         [] op = "*" -> m.a * m.b
         IN  IF m.ok
             THEN NumberToChunks(folded) \o FoldAll(s, m.end, op)
             ELSE <<s[i]>> \o FoldAll(s, i + 1, op)

\* the three replaces, each on the text that the one before it has returned
constantFolding(code) ==
    CHOOSE folded \in
        {FoldAll(differences, 1, "*") :
            differences \in {FoldAll(sums, 1, "-") :
                sums \in {FoldAll(code, 1, "+")}}} : TRUE

\* The chunks captured by `KEYWORD\s+([^;]+);` or `=\s*([^;]+);` when the
\* text between the keyword and the first ";" is s[from..semi-1]: the greedy
\* white space gives back one character when nothing else is left.
CapturedExpr(s, from, semi) ==
    LET e0 == SkipSpaces(s, from)
    IN  IF e0 >= semi THEN Slice(s, semi - 1, semi - 1) ELSE Slice(s, e0, semi - 1)

\* One match of
\*   /function\s+(\w+)\s*\([^)]*\)\s*{\s*return\s+([^;]+);\s*}/
\* that starts at i.
InlineMatch(s, i) ==
    IF ~(i + 1 <= Len(s) /\ s[i] = "function" /\ IsSpace(s[i + 1]))
    THEN [ok |-> FALSE]
    ELSE LET n0 == SkipSpaces(s, i + 1)
             n1 == SkipWord(s, n0)
             p  == SkipSpaces(s, n1)
         IN  IF ~(n1 > n0 /\ p <= Len(s) /\ s[p] = "(") THEN [ok |-> FALSE]
             ELSE LET c == IndexOf(s, ")", p + 1)
                      b == SkipSpaces(s, c + 1)
                  IN  IF ~(c # 0 /\ b <= Len(s) /\ s[b] = "{") THEN [ok |-> FALSE]
                      ELSE LET r == SkipSpaces(s, b + 1)
                               q == IndexOf(s, ";", r + 1)
                           IN  IF ~(r + 1 <= Len(s) /\ s[r] = "return"
                                    /\ IsSpace(s[r + 1]) /\ q >= r + 3)
                               THEN [ok |-> FALSE]
                               ELSE LET z == SkipSpaces(s, q + 1)
                                    IN  IF ~(z <= Len(s) /\ s[z] = "}")
                                        THEN [ok |-> FALSE]
                                        ELSE [ok |-> TRUE, end |-> z + 1,
                                              funcName |-> Slice(s, n0, n1 - 1),
                                              returnExpr |-> CapturedExpr(s, r + 1, q)]

RECURSIVE InlineAll(_, _)
InlineAll(s, i) ==
    IF i > Len(s) THEN << >>
    ELSE LET m == InlineMatch(s, i)
         IN  IF ~m.ok THEN <<s[i]>> \o InlineAll(s, i + 1)
             ELSE IF TextLength(m.returnExpr) < 50
             THEN <<"const", " ">> \o m.funcName
                  \o <<" ", "=", " ", "(", ")", " ", "=", ">", " ">>
                  \o m.returnExpr \o <<";">> \o InlineAll(s, m.end)
             ELSE Slice(s, i, m.end - 1) \o InlineAll(s, m.end)

inlineOptimization(code) == InlineAll(code, 1)

\* One match of /return\s+[^;]+;\s*[\s\S]*?(?=}|$)/ that starts at i: the
\* return statement ends at the first ";", the match right before the first
\* "}" after it, or at the end of the text.
DeadCodeMatch(s, i) ==
    IF ~(i + 1 <= Len(s) /\ s[i] = "return" /\ IsSpace(s[i + 1]))
    THEN [ok |-> FALSE]
    ELSE LET q == IndexOf(s, ";", i + 1)
         IN  IF q < i + 3 THEN [ok |-> FALSE]
             ELSE LET b == IndexOf(s, "}", q + 1)
                  IN  [ok |-> TRUE, semi |-> q,
                       end |-> IF b = 0 THEN Len(s) + 1 ELSE b]

RECURSIVE DeadCodeAll(_, _)
DeadCodeAll(s, i) ==
    IF i > Len(s) THEN << >>
    ELSE LET m == DeadCodeMatch(s, i)
         IN  IF m.ok THEN Slice(s, i, m.semi) \o DeadCodeAll(s, m.end)
             ELSE <<s[i]>> \o DeadCodeAll(s, i + 1)

deadCodeElimination(code) == DeadCodeAll(code, 1)

\* code.replace(/for\s*\([^)]+\)\s*{([^}]*?)}/g, (match, loopBody) => match):
\* every match is replaced by itself.
loopOptimization(code) == code


\* s[k], or "" when k is outside s
At(s, k) == IF k >= 1 /\ k <= Len(s) THEN s[k] ELSE ""

\* One match of
\*   /for\s*\(\s*let\s+(\w+)\s*=\s*0\s*;\s*\1\s*<\s*(\w+)\.length\s*;
\*    \s*\1\+\+\s*\)\s*{\s*(\w+)\[\1\]\s*=\s*([^;]+);\s*}/
\* that starts at i.
VectorMatch(s, i) ==
    LET a1  == SkipSpaces(s, i + 1)
        a2  == SkipSpaces(s, a1 + 1)
        w1  == SkipSpaces(s, a2 + 1)
        w1e == SkipWord(s, w1)
        idx == Slice(s, w1, w1e - 1)
        n   == Len(idx)
        a3  == SkipSpaces(s, w1e)
        a4  == SkipSpaces(s, a3 + 1)
        a5  == SkipSpaces(s, a4 + 1)
        b1  == SkipSpaces(s, a5 + 1)
        b2  == SkipSpaces(s, b1 + n)
        w2  == SkipSpaces(s, b2 + 1)
        w2e == SkipWord(s, w2)
        b3  == SkipSpaces(s, w2e + 2)
        c1  == SkipSpaces(s, b3 + 1)
        c2  == SkipSpaces(s, c1 + n + 2)
        c3  == SkipSpaces(s, c2 + 1)
        w3  == SkipSpaces(s, c3 + 1)
        w3e == SkipWord(s, w3)
        d1  == SkipSpaces(s, w3e + n + 2)
        q   == IndexOf(s, ";", d1 + 1)
        z   == SkipSpaces(s, q + 1)
    IN  IF /\ At(s, i) = "for"
           /\ At(s, a1) = "("
           /\ At(s, a2) = "let" /\ IsSpace(At(s, a2 + 1))
           /\ w1e > w1
           /\ At(s, a3) = "="
           /\ At(s, a4) = "0"
           /\ At(s, a5) = ";"
           /\ b1 + n - 1 <= Len(s) /\ Slice(s, b1, b1 + n - 1) = idx
           /\ At(s, b2) = "<"
           /\ w2e > w2
           /\ At(s, w2e) = "." /\ At(s, w2e + 1) = "length"
           /\ At(s, b3) = ";"
           /\ c1 + n - 1 <= Len(s) /\ Slice(s, c1, c1 + n - 1) = idx
           /\ At(s, c1 + n) = "+" /\ At(s, c1 + n + 1) = "+"
           /\ At(s, c2) = ")"
           /\ At(s, c3) = "{"
           /\ w3e > w3
           /\ At(s, w3e) = "["
           /\ w3e + n <= Len(s) /\ Slice(s, w3e + 1, w3e + n) = idx
           /\ At(s, w3e + n + 1) = "]"
           /\ At(s, d1) = "="
           /\ q >= d1 + 2
           /\ At(s, z) = "}"
        THEN [ok |-> TRUE, end |-> z + 1, index |-> idx,
              array |-> Slice(s, w2, w2e - 1),
              target |-> Slice(s, w3, w3e - 1),
              operation |-> CapturedExpr(s, d1 + 1, q)]
        ELSE [ok |-> FALSE]

RECURSIVE VectorAll(_, _)
VectorAll(s, i) ==
    IF i > Len(s) THEN << >>
    ELSE LET m == VectorMatch(s, i)
         IN  IF m.ok
             THEN m.target \o <<" ", "=", " ">> \o m.array
                  \o <<".", "map", "(", "(", "item", ",", " ">> \o m.index
                  \o <<")", " ", "=", ">", " ">> \o m.operation \o <<")", ";">>
                  \o VectorAll(s, m.end)
             ELSE <<s[i]>> \o VectorAll(s, i + 1)

vectorization(code) == VectorAll(code, 1)

\* this.optimizationLevels
optimizationLevels ==
    [l \in {"O0", "O1", "O2", "O3"} |->
        CASE l = "O0" -> [enableJIT |-> FALSE, optimizations |-> << >>]
          [] l = "O1" -> [enableJIT |-> TRUE,
                          optimizations |-> <<"inline", "const-fold">>]
          [] l = "O2" -> [enableJIT |-> TRUE,
                          optimizations |->
                              <<"inline", "const-fold", "dead-code", "loop-opt">>]
          [] l = "O3" -> [enableJIT |-> TRUE,
                          optimizations |->
                              <<"inline", "const-fold", "dead-code", "loop-opt",
                                "vectorize">>]]

\* the switch of optimize
ApplyPass(optimization, code) ==
    CASE optimization = "inline"     -> inlineOptimization(code)
      [] optimization = "const-fold" -> constantFolding(code)
      [] optimization = "dead-code"  -> deadCodeElimination(code)
      [] optimization = "loop-opt"   -> loopOptimization(code)
      [] optimization = "vectorize"  -> vectorization(code)
      [] OTHER                       -> code

\* for (const optimization of opts.optimizations): each pass works on the
\* text that its predecessor has returned
RECURSIVE ApplyPasses(_, _)
ApplyPasses(optimizations, code) ==
    IF optimizations = << >> THEN code
    ELSE CHOOSE optimizedCode \in
             {ApplyPasses(Tail(optimizations), passed) :
                 passed \in {ApplyPass(Head(optimizations), code)}} : TRUE

\* an optimize that applies the newest pass of the level only
optimizeNewestOnly(code, optimizationLevel) ==
    LET optimizations == optimizationLevels[optimizationLevel].optimizations
    IN  IF optimizations = << >> THEN code
        ELSE ApplyPass(optimizations[Len(optimizations)], code)

optimize(code, optimizationLevel) ==
    ApplyPasses(optimizationLevels[optimizationLevel].optimizations, code)

-----------------------------------------------------------------------------
(* JITEngine: compile, getStats, clearCache                                *)

\* the text of jitHints before ${code}
jitHintsPre ==
    LET Sp(n) == [i \in 1..n |-> " "]
    IN
    <<"\n">> \o Sp(6)
    \o <<"/", "/", " ", "V", "8", " ", "JIT", " ", "optimization", " ",
         "hints", "\n">> \o Sp(6)
    \o <<"'", "use", " ", "strict", "'", ";", "\n">> \o Sp(6)
    \o <<"\n">> \o Sp(6)
    \o <<"/", "/", " ", "Enable", " ", "aggressive", " ", "optimizations",
         "\n">> \o Sp(6)
    \o <<"function", " ", "__v", "8", "OptimizationHint", "(", ")", " ", "{",
         "\n">> \o Sp(8)
    \o <<"/", "/", " ", "Force", " ", "JIT", " ", "compilation", " ", "for",
         " ", "hot", " ", "functions", "\n">> \o Sp(8)
    \o <<"return", " ", "true", ";", "\n">> \o Sp(6)
    \o <<"}", "\n">> \o Sp(6)
    \o <<"\n">> \o Sp(6)
    \o <<"/", "/", " ", "Original", " ", "code", " ", "with", " ", "JIT", " ",
         "preparation", "\n">> \o Sp(6)

\* An option that the caller left out is Undefined; the boolean options are
\* written "true" and "false".
Undefined == "undefined"

\* a destructuring default: `name = default`
OptionOr(v, default) == IF v = Undefined THEN default ELSE v

prepareForJIT(code, enableJIT) ==
    IF enableJIT # "true" THEN code
    ELSE jitHintsPre \o code \o <<"\n", " ", " ", " ", " ">>

\* the brackets s[i..] close the open ones, innermost first, and each other
RECURSIVE Balanced(_, _, _)
Balanced(s, i, open) ==
    IF i > Len(s) THEN open = << >>
    ELSE IF s[i] \in {"(", "{", "["} THEN Balanced(s, i + 1, <<s[i]>> \o open)
    ELSE /\ open # << >>
         /\ <<Head(open), s[i]>> \in {<<"(", ")">>, <<"{", "}">>, <<"[", "]">>}
         /\ Balanced(s, i + 1, Tail(open))

\* new vm.Script(code) does not throw.  On the programs of this model V8
\* accepts exactly the texts whose brackets are balanced.
ScriptCompiles(code) ==
    \E brackets \in
           {SelectSeq(code, LAMBDA c : c \in {"(", "{", "[", ")", "}", "]"})} :
        Balanced(brackets, 1, << >>)

\* the program never returns: it contains while (true)
RunsForever(code) ==
    \E i \in 1..Len(code) :
        /\ code[i] = "while"
        /\ At(code, SkipSpaces(code, i + 1)) = "("
        /\ At(code, SkipSpaces(code, i + 1) + 1) = "true"

\* a parseCode that accepts every text
parseCodeUnchecked(code) == [ok |-> TRUE, code |-> code]

parseCode(code) ==
    IF ScriptCompiles(code) THEN [ok |-> TRUE, code |-> code]
    ELSE [ok |-> FALSE, error |-> "Code parsing failed"]

\* the script of compileWithV8 around ${code}: the code is the body of a
\* function that the script calls
\* The script is compiled, then run under options.timeout; errors of the
\* warm-up calls are ignored, a timeout is not.
compileWithV8(code) ==
    IF ~ScriptCompiles(
           <<"function", " ", "__optimizedFunction", "(", ")", " ", "{", " ",
             "return", " ", "(", "function", "(", ")", " ", "{", "\n">>
           \o code \o <<"\n", "}", ")", "(", ")", ";", " ", "}">>)
    THEN [ok |-> FALSE, error |-> "V8 compilation failed: syntax"]
    ELSE IF RunsForever(code)
    THEN [ok |-> FALSE, error |-> "V8 compilation failed: timed out"]
    ELSE [ok |-> TRUE]

\* md5(JSON.stringify({ code, options })): the key is the pair, md5 being
\* taken as collision-free; an option left out does not appear in the JSON.
generateCacheKey(code, options) == [code |-> code, options |-> options]

\* the fraction num/den in lowest terms
Fraction(num, den) ==
    LET RECURSIVE GCD(_, _)
        GCD(a, b) == IF b = 0 THEN a ELSE GCD(b, a % b)
        g == GCD(num, den)
    IN  [num |-> num \div g, den |-> den \div g]

\* (averageCompileTime + compileTime) / totalCompilations
NextAverage(average, compileTime, totalCompilations) ==
    Fraction(average.num + compileTime * average.den,
             average.den * totalCompilations)

NoResult == [none |-> TRUE]

\* this.compilationCache.set(cacheKey, result)
MapSet(map, key, value) ==
    [k \in DOMAIN map \cup {key} |-> IF k = key THEN value ELSE map[k]]

EmptyMap == [k \in {} |-> NoResult]

\* a compile that never stores its result
CacheResultSkipped(cache, cacheKey, result) == compilationCache

\* if (cache) { this.compilationCache.set(cacheKey, result); }
CacheResult(cache, cacheKey, result) ==
    IF cache = "true" THEN MapSet(compilationCache, cacheKey, result)
    ELSE compilationCache

MaxCompilations == 2

MaxCacheHits == 2

MaxCompileTime == 2

\* the code given to compile: a sum, a loop that never ends, and a text
\* that does not parse
Programs ==
    {<<"1", "+", "2", "+", "3">>,
     <<"while", " ", "(", "true", ")", " ", "{", "}">>,
     <<"function", " ", "f", "(", ")", " ", "{">>}

OptionSets ==
    LET CompileOptions(optimizationLevel, enableJIT, cache) ==
            [optimizationLevel |-> optimizationLevel, enableJIT |-> enableJIT,
             timeout |-> Undefined, cache |-> cache]
    IN
    {CompileOptions(Undefined, Undefined, Undefined),
     CompileOptions("O1", Undefined, Undefined),
     CompileOptions("O0", "false", "false")}

\* A caller that awaits each call of the engine before it makes the next:
\* no compile() is suspended when it calls.
NoContinuationPending == pending = << >>

Call(op, code, options, outcome, ran, returned) ==
    [op |-> op, code |-> code, options |-> options, outcome |-> outcome,
     ran |-> ran, returned |-> returned]

Init ==
    /\ compilationCache = EmptyMap
    /\ stats = [totalCompilations |-> 0, cacheHits |-> 0,
                averageCompileTime |-> Fraction(0, 1)]
    /\ pending = << >>
    /\ lastCall = Call("none", << >>, Undefined, "none", << >>, NoResult)
    /\ completed = EmptyMap
    /\ session = Idle
    /\ translationCache = Idle /\ clock = Idle /\ translation = Idle
    /\ issued = Idle /\ responses = Idle /\ parsing = Idle
    /\ converters = Idle /\ conversion = Idle
    /\ inflight = Idle /\ handling = Idle

\* compile(code, options) up to `await this.compileWithV8(...)`, or to its
\* return on a cache hit, or to its throw when parseCode fails
compile(code, options) ==
    LET optimizationLevel == OptionOr(options.optimizationLevel, "O2")
        enableJIT == OptionOr(options.enableJIT, "true")
        cache     == OptionOr(options.cache, "true")
        cacheKey  == generateCacheKey(code, options)
        parsed    == parseCode(code)
    IN  /\ UNCHANGED <<compilationCache, completed>>
        /\ IF cache = "true" /\ cacheKey \in DOMAIN compilationCache
           THEN /\ stats.cacheHits < MaxCacheHits
                /\ stats' = [stats EXCEPT !.cacheHits = @ + 1]
                /\ lastCall' = Call("compile", code, options, "hit", << >>,
                                    compilationCache[cacheKey])
                /\ UNCHANGED pending
           ELSE IF ~parsed.ok
           THEN /\ lastCall' = Call("compile", code, options, "threw",
                                    <<"parseCode">>, NoResult)
                /\ UNCHANGED <<stats, pending>>
           ELSE \E jitCode \in
                       {prepareForJIT(optimize(parsed.code, optimizationLevel),
                                      enableJIT)} :
                    /\ stats.totalCompilations < MaxCompilations
                    /\ pending' = Append(pending,
                           [code |-> code, options |-> options,
                            optimizationLevel |-> optimizationLevel,
                            enableJIT |-> enableJIT, cache |-> cache,
                            cacheKey |-> cacheKey, jitCode |-> jitCode,
                            compiledResult |-> compileWithV8(jitCode)])
                    /\ lastCall' = Call("compile", code, options, "awaiting",
                                        <<"parseCode", "optimize",
                                          "prepareForJIT", "compileWithV8">>,
                                        NoResult)
                    /\ UNCHANGED stats

\* the rest of the oldest suspended compile(): the result is built, cached
\* and counted, or the error of compileWithV8 is thrown again
compileAfterAwait ==
    /\ pending # << >>
    /\ pending' = Tail(pending)
    /\ LET call == Head(pending)
       IN  IF ~call.compiledResult.ok
           THEN /\ lastCall' = Call("compile", call.code, call.options, "threw",
                                    << >>, NoResult)
                /\ UNCHANGED <<compilationCache, stats, completed>>
           ELSE \E compileTime \in 1..MaxCompileTime :
                LET result ==
                        [originalCode  |-> call.code,
                         optimizedCode |-> call.jitCode,
                         optimizations |->
                             optimizationLevels[call.optimizationLevel].optimizations,
                         jitEnabled    |-> call.enableJIT,
                         compileTime   |-> compileTime,
                         metadata      |->
                             [codeSize          |-> TextLength(call.code),
                              optimizedSize     |-> TextLength(call.jitCode),
                              optimizationLevel |-> call.optimizationLevel]]
                    total == stats.totalCompilations + 1
                IN  /\ compilationCache' =
                           CacheResult(call.cache, call.cacheKey, result)
                    /\ stats' = [stats EXCEPT
                           !.totalCompilations = total,
                           !.averageCompileTime =
                               NextAverage(@, compileTime, total)]
                    /\ completed' =
                           IF call.cacheKey \in DOMAIN completed THEN completed
                           ELSE MapSet(completed, call.cacheKey, result)
                    /\ lastCall' = Call("compile", call.code, call.options,
                                        "compiled", << >>, result)

\* a compile() call of a caller that does nothing else
CompileCall(code, options) ==
    /\ NoContinuationPending
    /\ compile(code, options)
    /\ UNCHANGED <<session, translatorVars, responses, parsing, serverVars>>

CompileResume ==
    /\ compileAfterAwait
    /\ UNCHANGED <<session, translatorVars, responses, parsing, serverVars>>

getStats ==
    /\ NoContinuationPending
    /\ lastCall' = Call("getStats", << >>, Undefined, "returned", << >>,
           [totalCompilations  |-> stats.totalCompilations,
            cacheHits          |-> stats.cacheHits,
            averageCompileTime |-> stats.averageCompileTime,
            cacheSize          |-> Cardinality(DOMAIN compilationCache),
            cacheHitRate       |->
                IF stats.totalCompilations > 0
                THEN Fraction(stats.cacheHits * 100, stats.totalCompilations)
                ELSE Fraction(0, 1)])
    /\ UNCHANGED <<compilationCache, stats, pending, completed, session,
                   translatorVars, responses, parsing, serverVars>>

clearCache ==
    /\ NoContinuationPending
    /\ compilationCache' = EmptyMap
    /\ completed' = EmptyMap
    /\ lastCall' = Call("clearCache", << >>, Undefined, "returned", << >>,
                        NoResult)
    /\ UNCHANGED <<stats, pending, session, translatorVars, responses, parsing,
                   serverVars>>

Next ==
    \/ \E code \in Programs, options \in OptionSets : CompileCall(code, options)
    \/ CompileResume
    \/ getStats
    \/ clearCache

Spec == Init /\ [][Next]_vars

CacheEnabled(options) == OptionOr(options.cache, "true") = "true"

C28_CacheHitRateIsAPercentage ==
    (lastCall.op = "getStats" /\ lastCall.outcome = "returned")
    => LET cacheHitRate == lastCall.returned.cacheHitRate
       IN  /\ cacheHitRate.num >= 0
           /\ cacheHitRate.num <= 100 * cacheHitRate.den

\* C18: an entry of the cache, once inserted, is there under the same key
\* with the same value after every later operation of the engine: compile,
\* getStats, clearCache, the same request again.
C18_CacheEntriesStay ==
    [][\A cacheKey \in DOMAIN compilationCache :
          /\ cacheKey \in DOMAIN compilationCache'
          /\ compilationCache'[cacheKey] = compilationCache[cacheKey]]_vars

-----------------------------------------------------------------------------
(* compile at each optimization level                                      *)

\* a sum before a loop over an array
LevelPrograms ==
    {<<"1", "+", "2", ";",
       "for", "(", "let", " ", "i", "=", "0", ";", "i", "<", "a", ".",
       "length", ";", "i", "+", "+", ")", "{", "b", "[", "i", "]", "=", "a",
       "[", "i", "]", "*", "2", ";", "}">>}

\* options that name a level and leave the rest to the defaults, and no
\* options at all
LevelOptions ==
    {[optimizationLevel |-> l, enableJIT |-> Undefined, timeout |-> Undefined,
      cache |-> Undefined] : l \in DOMAIN optimizationLevels \cup {Undefined}}

NextLevels ==
    \/ \E code \in LevelPrograms, options \in LevelOptions :
           CompileCall(code, options)
    \/ CompileResume

SpecLevels == Init /\ [][NextLevels]_vars

\* C16: the levels are cumulative.  O0 has no pass and leaves the code as it
\* is, O1 is inline then const-fold, O2 adds dead-code and loop-opt, O3 adds
\* vectorize, so that the passes of a level begin with those of the level
\* below; what compile reports as optimizations is the list of the requested
\* level, and its optimizedCode is the code after exactly these passes, in
\* this order.
C16_LevelsAreCumulative ==
    LET Passes ==
            [l \in {"O0", "O1", "O2", "O3"} |->
                CASE l = "O0" -> << >>
                  [] l = "O1" -> <<"inline", "const-fold">>
                  [] l = "O2" -> <<"inline", "const-fold", "dead-code",
                                   "loop-opt">>
                  [] l = "O3" -> <<"inline", "const-fold", "dead-code",
                                   "loop-opt", "vectorize">>]
        IsPrefix(a, b) == Len(a) <= Len(b) /\ SubSeq(b, 1, Len(a)) = a
        level == OptionOr(lastCall.options.optimizationLevel, "O2")
        enableJIT == OptionOr(lastCall.options.enableJIT, "true")
    IN  /\ DOMAIN optimizationLevels = DOMAIN Passes
        /\ \A l \in DOMAIN Passes : optimizationLevels[l].optimizations = Passes[l]
        /\ IsPrefix(optimizationLevels.O0.optimizations,
                    optimizationLevels.O1.optimizations)
        /\ IsPrefix(optimizationLevels.O1.optimizations,
                    optimizationLevels.O2.optimizations)
        /\ IsPrefix(optimizationLevels.O2.optimizations,
                    optimizationLevels.O3.optimizations)
        /\ (lastCall.op = "compile" /\ lastCall.outcome = "compiled") =>
               /\ lastCall.returned.optimizations = Passes[level]
               /\ \A inlined \in {inlineOptimization(lastCall.code)} :
                  \A o1 \in {constantFolding(inlined)} :
                  \A cut \in {deadCodeElimination(o1)} :
                  \A o2 \in {loopOptimization(cut)} :
                  \A o3 \in {vectorization(o2)} :
                      lastCall.returned.optimizedCode =
                          prepareForJIT(CASE level = "O0" -> lastCall.code
                                          [] level = "O1" -> o1
                                          [] level = "O2" -> o2
                                          [] level = "O3" -> o3,
                                        enableJIT)

\* a compile at O3 has returned code in which the sum is folded and the loop
\* is a map
C16_Witness ==
    /\ lastCall.op = "compile"
    /\ lastCall.outcome = "compiled"
    /\ lastCall.options.optimizationLevel = "O3"
    /\ \E i \in 1..Len(lastCall.returned.optimizedCode) :
           /\ lastCall.returned.optimizedCode[i] = "map"
           /\ \E j \in 1..(i - 1) :
                  SubSeq(lastCall.returned.optimizedCode, j, j + 1) = <<"3", ";">>

\* C17: at O0 JIT is off and nothing is optimized: a compile at O0 reports
\* jitEnabled false and returns the input code without the JIT hints, and a
\* compile at O1, O2 or O3 reports jitEnabled true.
C17_LevelZeroHasNoJIT ==
    LET level == OptionOr(lastCall.options.optimizationLevel, "O2")
    IN  (lastCall.op = "compile" /\ lastCall.outcome = "compiled") =>
            IF level = "O0"
            THEN /\ lastCall.returned.jitEnabled = "false"
                 /\ lastCall.returned.optimizedCode = lastCall.code
            ELSE lastCall.returned.jitEnabled = "true"

-----------------------------------------------------------------------------
(* Optimizer sessions: optimize, or one pass, applied to a text and then   *)
(* applied again to its own output                                         *)

MaxOptLen == 5

\* The texts given to the optimizer: every text of at most MaxOptLen chunks
\* over digits and operators, a small function, a function in a function,
\* statements after a return, a loop over an array, the sum of the test
\* 'Should apply constant folding optimization', and an iterative function
\* of the shape of the Fibonacci of the test 'Should optimize Fibonacci
\* function': a guarded return, statements, a loop, a return.
OptInputs ==
    LET FnSmall ==
        <<"function", " ", "f", "(", ")", " ", "{", " ", "return", " ", "4", "2",
          ";", " ", "}">>
        FnNested ==
        <<"function", " ", "f", "(", ")", "{", " ", "return", " ", "function", " ",
          "g", "(", ")", "{", " ", "return", " ", "1", ";", " ", "}", " ", "}">>
        DeadTail ==
        <<"function", " ", "h", "(", "x", ")", " ", "{", " ", "if", " ", "(", "x",
          ")", " ", "{", " ", "return", " ", "x", ";", " ", "x", " ", "=", " ",
          "3", "-", "1", "-", "1", ";", " ", "}", " ", "return", " ", "0", ";",
          " ", "}">>
        LoopVec ==
        <<"for", " ", "(", "let", " ", "i", " ", "=", " ", "0", ";", " ", "i",
          " ", "<", " ", "a", ".", "length", ";", " ", "i", "+", "+", ")", " ",
          "{", " ", "b", "[", "i", "]", " ", "=", " ", "a", "[", "i", "]", " ",
          "*", " ", "2", ";", " ", "}">>
        TestSum ==
        <<"5", " ", "+", " ", "3", " ", "*", " ", "2">>
        Fibonacci ==
        <<"function", " ", "fibonacci", "(", "n", ")", " ", "{", "\n",
          "if", " ", "(", "n", " ", "<", "=", " ", "0", ")", " ", "return", " ",
          "0", ";", "\n",
          "let", " ", "b", " ", "=", " ", "1", ";", "\n",
          "for", " ", "(", "let", " ", "i", " ", "=", " ", "2", ";", " ", "i",
          " ", "<", "=", " ", "n", ";", " ", "i", "+", "+", ")", " ", "{", "\n",
          "b", " ", "=", " ", "b", " ", "+", " ", "i", ";", "\n",
          "}", "\n",
          "return", " ", "b", ";", "\n",
          "}">>
    IN  UNION {[1..n -> {"1", "2", "+", "*"}] : n \in 0..MaxOptLen}
        \cup {FnSmall, FnNested, DeadTail, LoopVec, TestSum, Fibonacci}

Transform(fn, code) ==
    IF fn \in DOMAIN optimizationLevels THEN optimize(code, fn)
    ELSE ApplyPass(fn, code)

InitOpt ==
    /\ session \in {[input |-> t, stage |-> "input", fn |-> "none",
                     once |-> t, code |-> t] : t \in OptInputs}
    /\ compilationCache = Idle /\ stats = Idle /\ pending = Idle
    /\ lastCall = Idle /\ completed = Idle
    /\ translationCache = Idle /\ clock = Idle /\ translation = Idle
    /\ issued = Idle /\ responses = Idle /\ parsing = Idle
    /\ converters = Idle /\ conversion = Idle
    /\ inflight = Idle /\ handling = Idle

\* optimize(code, optimizationLevel) on the input of the session
ApplyOptimize(optimizationLevel) ==
    /\ session.stage = "input"
    /\ LET out == optimize(session.input, optimizationLevel)
       IN  session' = [session EXCEPT !.stage = "once",
                                      !.fn = optimizationLevel,
                                      !.once = out, !.code = out]
    /\ UNCHANGED <<engineVars, translatorVars, responses, parsing, serverVars>>

\* one pass on the input of the session
ApplyOnePass(optimization) ==
    /\ session.stage = "input"
    /\ LET out == ApplyPass(optimization, session.input)
       IN  session' = [session EXCEPT !.stage = "once", !.fn = optimization,
                                      !.once = out, !.code = out]
    /\ UNCHANGED <<engineVars, translatorVars, responses, parsing, serverVars>>

\* the same transformation applied to its own output
Reapply ==
    /\ session.stage = "once"
    /\ session' = [session EXCEPT !.stage = "twice",
                                  !.code = Transform(session.fn, session.code)]
    /\ UNCHANGED <<engineVars, translatorVars, responses, parsing, serverVars>>

NextOpt ==
    \/ \E optimizationLevel \in DOMAIN optimizationLevels :
           ApplyOptimize(optimizationLevel)
    \/ \E optimization \in {"inline", "const-fold", "dead-code", "loop-opt",
                             "vectorize"} :
           ApplyOnePass(optimization)
    \/ Reapply

SpecOpt == InitOpt /\ [][NextOpt]_vars

\* C2: optimize at every level, and every single pass, is idempotent: applied
\* to its own output it returns that output unchanged.
C2_Idempotent == session.stage = "twice" => session.code = session.once

\* C24: the dead-code pass removes only what follows an unconditional
\* return in its block: the statements after a return that a condition
\* guards stay, every block delimiter stays, and a text that compiles still
\* compiles after the pass and after optimize at O2.
C24_DeadCodeKeepsValidCode ==
    (session.stage = "once" /\ session.fn \in {"dead-code", "O2"})
    => LET Braces(code) ==
               SelectSeq(code, LAMBDA c : c \in {"{", "}"})
           guarded == {i \in 1..Len(session.input) - 2 :
                          /\ session.input[i] = ")"
                          /\ session.input[i + 2] = "return"}
       IN  /\ ScriptCompiles(session.input) => ScriptCompiles(session.once)
           /\ session.fn = "dead-code" =>
                  /\ Braces(session.once) = Braces(session.input)
                  /\ \A i \in guarded :
                         \A word \in {"let", "for"} :
                             IndexOf(session.input, word, i) # 0
                             => IndexOf(session.once, word, 1) # 0

\* C12: at O1 or higher the optimizations of the level include const-fold,
\* and a literal integer expression over +, - and * is replaced by the number
\* it denotes under the usual precedence and left associativity.
C12_FoldedToItsValue ==
    LET Operators == {"+", "-", "*"}
        \* s is digits joined by single operators, blanks next to operators
        IsExpression(s) ==
            /\ s # << >> /\ IsDigit(s[1]) /\ IsDigit(s[Len(s)])
            /\ \E i \in 1..Len(s) : s[i] \in Operators
            /\ \A i \in 1..Len(s) :
                   \/ IsDigit(s[i])
                   \/ s[i] \in Operators /\ ~(s[SkipSpaces(s, i + 1)] \in Operators)
                   \/ s[i] = " " /\ (s[i - 1] \in Operators \/ s[i + 1] \in Operators)
        Last(s, ops) ==
            LET at == {i \in 1..Len(s) : s[i] \in ops}
            IN  IF at = {} THEN 0 ELSE CHOOSE i \in at : \A j \in at : j <= i
        RECURSIVE Product(_)
        Product(s) ==
            LET p == Last(s, {"*"})
            IN  IF p = 0 THEN ToNumber(s)
                ELSE Product(SubSeq(s, 1, p - 1)) * ToNumber(SubSeq(s, p + 1, Len(s)))
        RECURSIVE Value(_)
        Value(s) ==
            LET p == Last(s, {"+", "-"})
            IN  IF p = 0 THEN Product(s)
                ELSE IF s[p] = "+"
                THEN Value(SubSeq(s, 1, p - 1)) + Product(SubSeq(s, p + 1, Len(s)))
                ELSE Value(SubSeq(s, 1, p - 1)) - Product(SubSeq(s, p + 1, Len(s)))
        folds == session.fn \in {"O1", "O2", "O3", "const-fold"}
    IN  (session.stage = "once" /\ folds /\ IsExpression(session.input))
        => /\ session.fn \in DOMAIN optimizationLevels =>
                  \E i \in 1..Len(optimizationLevels[session.fn].optimizations) :
                      optimizationLevels[session.fn].optimizations[i] = "const-fold"
           /\ session.once =
                  NumberToChunks(
                      Value(SelectSeq(session.input, LAMBDA c : c # " ")))

-----------------------------------------------------------------------------
(* IOSTranslator                                                           *)
(*                                                                         *)
(* The texts of the translator reach a megabyte, so a text is a sequence   *)
(* of elements [k, v, n]: k is the text of a token or the name of one of   *)
(* the template texts of the source, v the variant of a template that the  *)
(* rewrites applied so far have made of it, and n the number of leading    *)
(* characters of the element that are present.  The sizes of the templates *)
(* and the positions of the names in them are those of the source text.    *)

restrictedAPIs ==
    <<"eval", "Function", "setTimeout", "setInterval", "XMLHttpRequest",
      "fetch", "WebSocket">>

maxCodeSize == 1048576

SafeName(api) == "__ios_safe_" \o api

Token(k) == [k |-> k, v |-> "plain", n |-> Len(k)]

\* an identifier of n letters
Pad(n) == [k |-> "pad", v |-> "plain", n |-> n]

\* String.prototype.length of every template before and after ${code}:
\* as written (plain), after the DOM rewrite of adaptForJavaScriptCore (dom),
\* after the three replaces of optimizeForSize (min), after both (dommin),
\* and for the JIT hints after removeJITOptimizations (clean, cleanmin)
TemplateSizes ==
    [POLY_PRE  |-> [plain |-> 2831, dom |-> 2863, min |-> 1903, dommin |-> 1722],
     POLY_POST |-> [plain |-> 5, min |-> 1],
     SC_PRE    |-> [plain |-> 879, min |-> 447],
     SC_POST   |-> [plain |-> 144, min |-> 128],
     WV_PRE    |-> [plain |-> 280, min |-> 209],
     WV_POST   |-> [plain |-> 302, min |-> 196],
     JSC_PRE   |-> [plain |-> 407, min |-> 266],
     JSC_POST  |-> [plain |-> 18, min |-> 11],
     EXEC_PRE  |-> [plain |-> 468],
     EXEC_POST |-> [plain |-> 402],
     JIT_PRE   |-> [plain |-> 281, clean |-> 197, min |-> 64, cleanmin |-> 27],
     JIT_POST  |-> [plain |-> 5, clean |-> 5, min |-> 1, cleanmin |-> 1]]

Template(k, v) == [k |-> k, v |-> v, n |-> TemplateSizes[k][v]]

IsTemplate(e) == e.k \in DOMAIN TemplateSizes

\* In each variant of the polyfill text, where the first occurrence of a
\* name ends: any occurrence, its __ios_safe_ stand-in, and an occurrence
\* that is not part of the stand-in (raw).
PolyfillOccurrences ==
    [plain  |-> [eval       |-> [any |-> 78,  safe |-> 143, raw |-> 78],
                 Function   |-> [any |-> 344, safe |-> 401, raw |-> 344],
                 setTimeout |-> [any |-> 616, safe |-> 687, raw |-> 616]],
     dom    |-> [eval       |-> [any |-> 78,  safe |-> 143, raw |-> 78],
                 Function   |-> [any |-> 352, safe |-> 409, raw |-> 352],
                 setTimeout |-> [any |-> 632, safe |-> 703, raw |-> 632]],
     min    |-> [eval       |-> [any |-> 55,  safe |-> 55,  raw |-> 135],
                 Function   |-> [any |-> 243, safe |-> 243, raw |-> 327],
                 setTimeout |-> [any |-> 445, safe |-> 445, raw |-> 548]],
     dommin |-> [eval       |-> [any |-> 55,  safe |-> 55,  raw |-> 93],
                 Function   |-> [any |-> 201, safe |-> 201, raw |-> 243],
                 setTimeout |-> [any |-> 361, safe |-> 361, raw |-> 405]]]

\* code.includes(api), code.includes(`__ios_safe_${api}`), and whether api
\* occurs outside its stand-in.  OccEnd is where the first occurrence of
\* api, in the given form, ends in the whole text of element e; 0 when there
\* is none.
includes(code, api, form) ==
    LET OccEnd(e) ==
            IF e.k = api THEN (IF form = "safe" THEN 0 ELSE Len(api))
            ELSE IF e.k = SafeName(api)
            THEN (IF form = "raw" THEN 0 ELSE Len(e.k))
            ELSE IF e.k = "POLY_PRE" /\ api \in DOMAIN PolyfillOccurrences[e.v]
            THEN PolyfillOccurrences[e.v][api][form]
            ELSE 0
    IN  \E i \in 1..Len(code) :
            OccEnd(code[i]) # 0 /\ code[i].n >= OccEnd(code[i])

\* code.length
RECURSIVE Length(_)
Length(code) == IF code = << >> THEN 0 ELSE Head(code).n + Length(Tail(code))

\* code.substring(0, len)
RECURSIVE Substring(_, _)
Substring(code, len) ==
    IF code = << >> \/ len <= 0 THEN << >>
    ELSE IF Head(code).n <= len
    THEN <<Head(code)>> \o Substring(Tail(code), len - Head(code).n)
    ELSE <<[Head(code) EXCEPT !.n = len]>>

\* \b on both sides of element i: no neighbour has \w at its ends
WholeWord(code, i) ==
    LET IsWordElem(e) ==
            /\ ~IsTemplate(e)
            /\ e.k \notin {" ", "\n", ";", "'use strict';", "\n// TRUNCATED"}
    IN  /\ i = 1 \/ ~IsWordElem(code[i - 1])
        /\ i = Len(code) \/ ~IsWordElem(code[i + 1])

\* The first two replaces cut the JIT hints down to their clean variant; the
\* third removes every 'use strict'; with the white space after it, and one
\* 'use strict'; is put in front if any was there.
removeJITOptimizations(code) ==
    LET cleanCode ==
            [i \in 1..Len(code) |->
                IF code[i].k = "JIT_PRE" THEN Template("JIT_PRE", "clean")
                ELSE code[i]]
        IsStrict(i) == cleanCode[i].k = "'use strict';"
        IsBlank(e) == e.k \in {" ", "\n", "JIT_POST", "POLY_POST"}
        hasStrict == \E i \in 1..Len(cleanCode) : IsStrict(i)
        Removed(i) ==
            \/ IsStrict(i)
            \/ /\ IsBlank(cleanCode[i])
               /\ \E j \in 1..(i - 1) :
                      /\ IsStrict(j)
                      /\ \A m \in (j + 1)..(i - 1) : IsBlank(cleanCode[m])
        kept == {i \in 1..Len(cleanCode) : ~Removed(i)}
        Nth(n) == CHOOSE i \in kept : Cardinality({j \in kept : j < i}) = n - 1
        rest == [n \in 1..Cardinality(kept) |-> cleanCode[Nth(n)]]
    IN  IF hasStrict THEN <<Token("'use strict';"), Token("\n")>> \o rest
        ELSE rest

\* Every restricted name that stands as a whole word is replaced by its
\* stand-in, then let and const by var.  The texts of this model hold no
\* arrow function, template literal, destructuring or default parameter for
\* the other replaces of transpileArrowFunctions and transpileModernFeatures.
applyIOSCompatibility(code) ==
    [i \in 1..Len(code) |->
        IF ~WholeWord(code, i) THEN code[i]
        ELSE IF \E a \in 1..Len(restrictedAPIs) : restrictedAPIs[a] = code[i].k
        THEN Token(SafeName(code[i].k))
        ELSE IF code[i].k \in {"let", "const"} THEN Token("var")
        ELSE code[i]]

addPolyfills(code) ==
    <<Template("POLY_PRE", "plain")>> \o code \o <<Template("POLY_POST", "plain")>>

adaptForShortcuts(code) ==
    <<Template("SC_PRE", "plain")>> \o code \o <<Template("SC_POST", "plain")>>

adaptForWebView(code) ==
    <<Template("WV_PRE", "plain")>> \o code \o <<Template("WV_POST", "plain")>>

\* code.replace(/document\.|window\.|DOM/g, '// DOM_REMOVED ') changes the
\* polyfill text, the only text of the model with a match
adaptForJavaScriptCore(code) ==
    <<Template("JSC_PRE", "plain")>>
    \o [i \in 1..Len(code) |->
           IF code[i].k = "POLY_PRE" THEN Template("POLY_PRE", "dom") ELSE code[i]]
    \o <<Template("JSC_POST", "plain")>>

adaptForTarget(code, target) ==
    CASE target = "webview" -> adaptForWebView(code)
      [] target = "jsc"     -> adaptForJavaScriptCore(code)
      [] OTHER              -> adaptForShortcuts(code)

\* The three replaces of optimizeForSize: comments go, and every run of
\* white space becomes one blank.  Each template becomes its min variant,
\* which begins and ends with a blank; where two elements meet blank to
\* blank the left one loses its last character.
Compressed(code) ==
    LET Min(e) ==
            IF IsTemplate(e)
            THEN Template(e.k, CASE e.v = "plain" -> "min"
                                 [] e.v = "dom"   -> "dommin"
                                 [] e.v = "clean" -> "cleanmin")
            ELSE IF e.k = "\n" THEN Token(" ")
            ELSE e
        EdgeBlank(e) == IsTemplate(e) \/ e.k \in {" ", "\n"}
        merged ==
            [i \in 1..Len(code) |->
                IF i < Len(code) /\ EdgeBlank(code[i]) /\ EdgeBlank(code[i + 1])
                THEN [Min(code[i]) EXCEPT !.n = @ - 1]
                ELSE Min(code[i])]
    IN  SelectSeq(merged, LAMBDA e : e.n > 0)

TruncationMarker == Token("\n// TRUNCATED")

optimizeForIOS(code, optimizeForSize) ==
    LET optimizedCode ==
            IF optimizeForSize = "true" THEN Compressed(code) ELSE code
    IN  IF Length(optimizedCode) > maxCodeSize
        THEN Substring(optimizedCode, maxCodeSize - 100) \o <<TruncationMarker>>
        ELSE optimizedCode

wrapForIOSExecution(code, target) ==
    <<Template("EXEC_PRE", "plain")>> \o code
    \o <<[k |-> "EXEC_POST", v |-> "plain",
          n |-> TemplateSizes.EXEC_POST.plain - Len("${target}") + Len(target)]>>

IssueFor(api) == "Restricted API detected: " \o api

validateIOSCompatibility(code) ==
    LET Restricted(api) ==
            includes(code, api, "any") /\ ~includes(code, api, "safe")
        found == SelectSeq(restrictedAPIs, Restricted)
        issues ==
            [i \in 1..Len(found) |-> IssueFor(found[i])]
            \o (IF Length(code) > maxCodeSize
                THEN <<"Code size exceeds iOS limits">> ELSE << >>)
    IN  [compatible |-> issues = << >>, issues |-> issues]

TicksPerHour == 2

\* md5 of JSON.stringify({ code, options, timestamp }) with timestamp the
\* number of whole hours of Date.now(); md5 is taken as collision-free
generateTranslationKey(jitResult, options, now) ==
    [code |-> jitResult.optimizedCode, options |-> options,
     timestamp |-> now \div TicksPerHour]

\* translate up to step 4: the code that adaptForTarget returns
AdaptedCode(jitResult, options) ==
    LET target            == OptionOr(options.target, "shortcuts")
        enablePolyfills   == OptionOr(options.enablePolyfills, "true")
        dejittedCode      == removeJITOptimizations(jitResult.optimizedCode)
        iosCompatibleCode == applyIOSCompatibility(dejittedCode)
        polyfillCode      == IF enablePolyfills = "true"
                             THEN addPolyfills(iosCompatibleCode)
                             ELSE iosCompatibleCode
    IN  adaptForTarget(polyfillCode, target)

\* the result object of translate on a cache miss
Translated(jitResult, options) ==
    LET target          == OptionOr(options.target, "shortcuts")
        enablePolyfills == OptionOr(options.enablePolyfills, "true")
        optimizeForSize == OptionOr(options.optimizeForSize, "false")
        optimizedCode   == optimizeForIOS(AdaptedCode(jitResult, options),
                                          optimizeForSize)
        wrappedCode     == wrapForIOSExecution(optimizedCode, target)
    IN  [code           |-> wrappedCode,
         originalSize   |-> Length(jitResult.optimizedCode),
         translatedSize |-> Length(wrappedCode),
         adaptations    |->
             <<"jit_removal", "ios_compatibility">>
             \o (IF enablePolyfills = "true" THEN <<"polyfills">> ELSE << >>)
             \o <<"target_" \o target, "ios_optimization", "ios_wrapper">>,
         canExecute     |-> validateIOSCompatibility(wrappedCode)]

MaxCodeLen == 2

MaxClock == 2

\* every text of at most MaxCodeLen elements, and each restricted name, a
\* let and two texts somewhat shorter than maxCodeSize on their own
UserCodes ==
    UNION {[1..n -> {Token(t) : t \in {"eval", "fetch", "x", " ",
                                        "'use strict';"}}
                    \cup {Pad(maxCodeSize)}] : n \in 0..MaxCodeLen}
    \cup {<<Token(restrictedAPIs[a])>> : a \in 1..Len(restrictedAPIs)}
    \cup {<<Token("let")>>, <<Pad(maxCodeSize - 4000)>>,
          <<Pad(maxCodeSize - 450)>>}

\* what compile returns: the code as it is, or inside the JIT hints
JitResults ==
    {[optimizedCode |-> c, jitEnabled |-> "false"] : c \in UserCodes}
    \cup {[optimizedCode |-> <<Template("JIT_PRE", "plain")>> \o c
                             \o <<Template("JIT_POST", "plain")>>,
           jitEnabled |-> "true"] : c \in UserCodes}

TranslateOptions ==
    [target : {Undefined, "webview", "jsc"}, preservePerformance : {Undefined},
     enablePolyfills : {Undefined, "false"}, optimizeForSize : {Undefined, "true"}]

InitTranslate ==
    /\ translationCache = EmptyMap
    /\ clock = 0
    /\ translation \in
           {[jitResult |-> j, options |-> o, cacheKey |-> Undefined,
             hit |-> FALSE, returned |-> NoResult] :
                j \in JitResults, o \in TranslateOptions}
    /\ issued = {}
    /\ compilationCache = Idle /\ stats = Idle /\ pending = Idle
    /\ lastCall = Idle /\ completed = Idle /\ session = Idle
    /\ responses = Idle /\ parsing = Idle
    /\ converters = Idle /\ conversion = Idle
    /\ inflight = Idle /\ handling = Idle

\* translate(jitResult, options) for the request of this run
translate ==
    LET cacheKey == generateTranslationKey(translation.jitResult,
                                           translation.options, clock)
        hit      == cacheKey \in DOMAIN translationCache
        result   == IF hit THEN translationCache[cacheKey]
                    ELSE Translated(translation.jitResult, translation.options)
    IN  /\ translationCache' =
               IF hit THEN translationCache
               ELSE MapSet(translationCache, cacheKey, result)
        /\ translation' = [translation EXCEPT !.cacheKey = cacheKey,
                                              !.hit = hit, !.returned = result]
        /\ issued' = issued \cup {[cacheKey |-> cacheKey, code |-> result.code]}
        /\ UNCHANGED <<clock, engineVars, session, responses, parsing,
                       serverVars>>

\* half an hour passes
Tick ==
    /\ clock < MaxClock
    /\ clock' = clock + 1
    /\ UNCHANGED <<translationCache, translation, issued, engineVars, session,
                   responses, parsing, serverVars>>

clearTranslationCache ==
    /\ translationCache' = EmptyMap
    /\ UNCHANGED <<clock, translation, issued, engineVars, session, responses,
                   parsing, serverVars>>

NextTranslate == translate \/ Tick \/ clearTranslationCache

SpecTranslate == InitTranslate /\ [][NextTranslate]_vars

\* C3: identical (input, options) gives the identical cache key and the
\* identical generated code, whatever the times of the calls.
C3_SameFingerprintAtAnyTime == Cardinality(issued) <= 1

\* C8: a restricted name that occurs in the final output outside its
\* stand-in makes the verdict incompatible and is listed in issues, and the
\* verdict is compatible exactly when there is no such occurrence and the
\* output is at most maxCodeSize long.
C8_VerdictFollowsOccurrences ==
    translation.returned # NoResult =>
        LET code    == translation.returned.code
            verdict == translation.returned.canExecute
            leftIn  == {a \in 1..Len(restrictedAPIs) :
                            includes(code, restrictedAPIs[a], "raw")}
        IN  /\ \A a \in leftIn :
                   /\ ~verdict.compatible
                   /\ \E i \in 1..Len(verdict.issues) :
                          verdict.issues[i] = IssueFor(restrictedAPIs[a])
            /\ verdict.compatible <=>
                   (leftIn = {} /\ Length(code) <= maxCodeSize)

\* C9: translate of code with one restricted identifier returns a verdict
\* that is not compatible and whose issues name the identifier.
C9_RestrictedIdentifierIsReported ==
    LET code == translation.jitResult.optimizedCode
        \* where the restricted names stand as identifiers in the code
        identifiers ==
            {i \in 1..Len(code) :
                /\ WholeWord(code, i)
                /\ \E a \in 1..Len(restrictedAPIs) :
                       restrictedAPIs[a] = code[i].k}
    IN  (translation.returned # NoResult /\ Cardinality(identifiers) = 1)
        => \A i \in identifiers :
               /\ ~translation.returned.canExecute.compatible
               /\ \E j \in 1..Len(translation.returned.canExecute.issues) :
                      translation.returned.canExecute.issues[j]
                          = IssueFor(code[i].k)

\* C10: when the adapted code is longer than maxCodeSize and optimizeForSize
\* is on, the returned code holds the truncation marker and is at most
\* maxCodeSize long.
C10_TruncatedToMaximum ==
    (/\ translation.returned # NoResult
     /\ translation.options.optimizeForSize = "true"
     /\ Length(AdaptedCode(translation.jitResult, translation.options))
            > maxCodeSize)
    => /\ \E i \in 1..Len(translation.returned.code) :
              translation.returned.code[i] = TruncationMarker
       /\ Length(translation.returned.code) <= maxCodeSize

\* C11: with the other options the same, the code returned with
\* optimizeForSize on is never longer than the code returned with it off.
C11_SizeOptimizationNeverLonger ==
    translation.returned # NoResult =>
        LET sized == Translated(translation.jitResult,
                         [translation.options EXCEPT !.optimizeForSize = "true"])
            plain == Translated(translation.jitResult,
                         [translation.options EXCEPT !.optimizeForSize = "false"])
        IN  Length(sized.code) <= Length(plain.code)

\* C20: translate wraps the code in the harness of the target before it
\* enforces the maximum size, and enforcing the size is the last pass: the
\* adaptations, which are in the order the passes ran, name the wrapper before
\* the size pass and end with the size pass, and with optimizeForSize off the
\* returned code is the wrapped code as the size pass leaves it.
C20_SizeEnforcedLast ==
    translation.returned # NoResult =>
        LET adaptations == translation.returned.adaptations
            Position(name) ==
                CHOOSE i \in 1..Len(adaptations) : adaptations[i] = name
            target == OptionOr(translation.options.target, "shortcuts")
            wrappedCode ==
                wrapForIOSExecution(
                    AdaptedCode(translation.jitResult, translation.options),
                    target)
        IN  /\ Position("jit_removal") < Position("ios_compatibility")
            /\ Position("ios_compatibility") < Position("ios_wrapper")
            /\ Position("ios_wrapper") < Position("ios_optimization")
            /\ Position("ios_optimization") = Len(adaptations)
            /\ OptionOr(translation.options.optimizeForSize, "false") = "false"
                   => translation.returned.code
                          = optimizeForIOS(wrappedCode, "false")

-----------------------------------------------------------------------------
(* JITEngine.execute and POST /jit/execute                                 *)

\* What V8 does with the script that execute builds around compiledCode:
\* new vm.Script rejects it, or the code returns a number, throws an Error,
\* throws null, never ends, or ends without a return.
SandboxRun(compiledCode) ==
    CASE compiledCode = "return 5 + 3;" -> [kind |-> "returns", number |-> 8]
      [] compiledCode = "throw new Error(\"Test error\");" ->
             [kind |-> "throws", message |-> "Test error"]
      [] compiledCode = "throw null;"     -> [kind |-> "throws null"]
      [] compiledCode = "while (true) {}" -> [kind |-> "never ends"]
      [] compiledCode = "function ("      -> [kind |-> "SyntaxError"]
      [] compiledCode = "1 + 1;"          -> [kind |-> "no return"]

CompiledCodes ==
    {"return 5 + 3;", "throw new Error(\"Test error\");", "throw null;",
     "while (true) {}", "function (", "1 + 1;"}

\* execute(compiledCode, input, options): what it returns, or the message of
\* the Error it throws.  The catch of the wrapper function turns an Error
\* thrown by the code into { error, success: false }; reading .message of a
\* thrown null throws again, out of the script.  Whatever new vm.Script or
\* runInContext throws reaches the outer catch, which throws.
execute(compiledCode) ==
    LET run == SandboxRun(compiledCode)
        JSValue(type, number, success, error) ==
            [type |-> type, number |-> number, success |-> success,
             error |-> error]
        Throws(message) == [threw |-> TRUE, message |-> message,
                            result |-> NoResult]
        Returns(value) == [threw |-> FALSE, message |-> Undefined,
                           result |-> value]
    IN  CASE run.kind = "SyntaxError" ->
                 Throws("Execution failed: Unexpected token")
          [] run.kind = "never ends" ->
                 Throws("Execution failed: Script execution timed out")
          [] run.kind = "throws null" ->
                 Throws("Execution failed: Cannot read properties of null")
          [] run.kind = "throws" ->
                 Returns(JSValue("object", 0, "false", run.message))
          [] run.kind = "returns" ->
                 Returns(JSValue("number", run.number, Undefined, Undefined))
          [] run.kind = "no return" ->
                 Returns(JSValue("undefined", 0, Undefined, Undefined))

MaxRequests == 3

InitExec ==
    /\ responses = << >>
    /\ compilationCache = Idle /\ stats = Idle /\ pending = Idle
    /\ lastCall = Idle /\ completed = Idle /\ session = Idle
    /\ translationCache = Idle /\ clock = Idle /\ translation = Idle
    /\ issued = Idle /\ parsing = Idle
    /\ converters = Idle /\ conversion = Idle
    /\ inflight = Idle /\ handling = Idle

\* app.post('/jit/execute'): 400 without compiledCode; 500 when execute
\* throws or when JSON.stringify(result).length throws, which it does for an
\* undefined result; 200 with success: true otherwise.
PostExecute(compiledCode) ==
    LET executed == execute(compiledCode)
        Response(status, success, result, error, message) ==
            [status |-> status, success |-> success, result |-> result,
             error |-> error, message |-> message]
        response ==
            IF compiledCode \in {Undefined, ""}
            THEN Response(400, Undefined, NoResult, "Invalid input",
                          "compiledCode parameter is required")
            ELSE IF executed.threw
            THEN Response(500, "false", NoResult, "Execution failed",
                          executed.message)
            ELSE IF executed.result.type = "undefined"
            THEN Response(500, "false", NoResult, "Execution failed",
                          "Cannot read properties of undefined")
            ELSE Response(200, "true", executed.result, Undefined, Undefined)
    IN  /\ Len(responses) < MaxRequests
        /\ responses' = Append(responses,
               [compiledCode |-> compiledCode, response |-> response])
        /\ UNCHANGED <<engineVars, session, translatorVars, parsing, serverVars>>

NextExec ==
    \E compiledCode \in CompiledCodes \cup {Undefined, ""} :
        PostExecute(compiledCode)

SpecExec == InitExec /\ [][NextExec]_vars

\* C6: execute never throws to its caller: code that throws at run time,
\* code with a syntax error and code that runs into the timeout each make
\* execute return a failure object with success false and an error.
C6_ExecuteNeverThrows ==
    \A i \in 1..Len(responses) :
        LET compiledCode == responses[i].compiledCode
        IN  compiledCode \in CompiledCodes =>
                /\ ~execute(compiledCode).threw
                /\ SandboxRun(compiledCode).kind
                       \in {"throws", "throws null", "SyntaxError", "never ends"}
                   => /\ execute(compiledCode).result.type = "object"
                      /\ execute(compiledCode).result.success = "false"
                      /\ execute(compiledCode).result.error # Undefined

\* C7: POST /jit/execute with code that throws at run time answers with
\* status 500 and a body with success false and an error.
C7_ThrowingCodeAnswers500 ==
    \A i \in 1..Len(responses) :
        (/\ responses[i].compiledCode \in CompiledCodes
         /\ SandboxRun(responses[i].compiledCode).kind = "throws")
        => /\ responses[i].response.status = 500
           /\ responses[i].response.success = "false"
           /\ responses[i].response.error # Undefined

\* C29: when the run in the sandbox ends without throwing, POST /jit/execute
\* answers with status 200 and success true, whatever the run produced: a
\* value, or no value at all (undefined) as for code without a return.
C29_CompletedRunAnswers200 ==
    \A i \in 1..Len(responses) :
        (/\ responses[i].compiledCode \in CompiledCodes
         /\ ~execute(responses[i].compiledCode).threw)
        => /\ responses[i].response.status = 200
           /\ responses[i].response.success = "true"

-----------------------------------------------------------------------------
(* The dialect parsers: ObjectiveCConverter and SwiftConverter             *)
(*                                                                         *)
(* A source is the sequence of its lines (the pieces that split('\n')      *)
(* gives) and a line is a sequence of chunks.  An IR module keeps for each *)
(* declaration its name, its members, its body and the line where it ends; *)
(* the types, parameters and attributes that the regular expressions       *)
(* capture as well are not kept.  Line indexes count from 1.               *)

\* Chunk c holds the chunk w of a searched text; the text may begin inside
\* c when w is its first chunk, and end inside c when w is its last chunk.
\* Embedded lists the identifiers of the inputs that hold a keyword as a
\* part of them: <<identifier, keyword, where the keyword lies in it>>.
Part(c, w, first, last) ==
    LET Embedded == {<<"print", "in", "inside">>, <<"init", "in", "start">>}
    IN  \/ c = w
        \/ <<c, w, "start">> \in Embedded /\ last
        \/ <<c, w, "end">> \in Embedded /\ first
        \/ <<c, w, "inside">> \in Embedded /\ first /\ last

\* line.includes(text)
Includes(line, text) ==
    \E k \in 1..(Len(line) - Len(text) + 1) :
        \A j \in 1..Len(text) :
            Part(line[k + j - 1], text[j], j = 1, j = Len(text))

\* line.startsWith(text)
StartsWith(line, text) ==
    /\ Len(line) >= Len(text)
    /\ \A j \in 1..Len(text) : Part(line[j], text[j], FALSE, j = Len(text))

\* line.trim()
RECURSIVE Trim(_)
Trim(line) ==
    IF line = << >> THEN line
    ELSE IF IsSpace(line[1]) THEN Trim(Tail(line))
    ELSE IF IsSpace(line[Len(line)]) THEN Trim(SubSeq(line, 1, Len(line) - 1))
    ELSE line

\* code.split('\n').map(line => line.trim()).filter(line => line)
SplitLines(code) ==
    SelectSeq([k \in 1..Len(code) |-> Trim(code[k])],
              LAMBDA line : line # << >>)

\* body += currentLine + '\n', for each of the lines
RECURSIVE JoinLines(_)
JoinLines(lines) ==
    IF lines = << >> THEN << >>
    ELSE lines[1] \o <<"\n">> \o JoinLines(Tail(lines))

\* (line.match(/{/g) || []).length - (line.match(/}/g) || []).length
BraceDelta(line) ==
    Len(SelectSeq(line, LAMBDA c : c = "{"))
        - Len(SelectSeq(line, LAMBDA c : c = "}"))

\* Capture group (\w+) of the leftmost match of /keyword\s+(\w+)/ in the
\* line, << >> when there is no match.
NameAfter(line, keyword) ==
    LET n == Len(keyword)
        Name(k) == LET w == SkipSpaces(line, k + n)
                   IN  IF w > k + n THEN Slice(line, w, SkipWord(line, w) - 1)
                       ELSE << >>
        ks == {k \in 1..(Len(line) - n) :
                   /\ \A j \in 1..n : Part(line[k + j - 1], keyword[j], j = 1, FALSE)
                   /\ Name(k) # << >>}
    IN  IF ks = {} THEN << >>
        ELSE Name(CHOOSE k \in ks : \A j \in ks : k <= j)

\* The loop of parseMethod and of parseInitializer that looks for the body
\* from line i on: the line of the first open brace (0 when there is none),
\* the line where the braces balance (startIndex when they never do) and the
\* last line that is appended to the body.
RECURSIVE ScanBody(_, _, _, _, _)
ScanBody(lines, i, startIndex, braceDepth, bodyStart) ==
    IF i > Len(lines)
    THEN [bodyStart |-> bodyStart, bodyEnd |-> startIndex, last |-> Len(lines)]
    ELSE LET opened == IF bodyStart = 0 /\ Includes(lines[i], <<"{">>)
                       THEN i ELSE bodyStart
             depth == braceDepth + BraceDelta(lines[i])
         IN  IF Includes(lines[i], <<"}">>) /\ depth = 0 /\ opened # 0
             THEN [bodyStart |-> opened, bodyEnd |-> i, last |-> i - 1]
             ELSE ScanBody(lines, i + 1, startIndex, depth, opened)

\* body.trim() of the lines that ScanBody appended
BodyOf(lines, scan) ==
    IF scan.bodyStart = 0 THEN << >>
    ELSE Trim(JoinLines(Slice(lines, scan.bodyStart + 1, scan.last)))

\* /^[-+]\s*\(/
IsMethodLine(line) ==
    At(line, 1) \in {"-", "+"} /\ At(line, SkipSpaces(line, 2)) = "("

\* parseMethod(line, lines, startIndex); ok is FALSE for null
parseMethod(line, lines, startIndex) ==
    LET open == SkipSpaces(line, 2)
        close == IndexOf(line, ")", open + 1)
        signature == Slice(line, SkipSpaces(line, close + 1), Len(line))
        colon == IndexOf(signature, ":", 1)
        scan == ScanBody(lines, startIndex, startIndex, 0, 0)
    IN  IF ~(IsMethodLine(line) /\ close > open + 1 /\ close < Len(line))
        THEN [ok |-> FALSE]
        ELSE IF signature[Len(signature)] = ";"
        THEN [ok |-> TRUE, isInstance |-> line[1] = "-",
              name |-> Trim(SubSeq(signature, 1, Len(signature) - 1)),
              body |-> << >>, endLine |-> startIndex, isDeclaration |-> TRUE]
        ELSE [ok |-> TRUE, isInstance |-> line[1] = "-",
              name |-> IF colon = 0 THEN Trim(signature)
                       ELSE Trim(Slice(signature, 1, colon - 1)),
              body |-> BodyOf(lines, scan), endLine |-> scan.bodyEnd,
              isDeclaration |-> FALSE]

\* The loop of parseProtocols and of parseCategory over the lines after the
\* declaration, up to '@end'; only parseCategory moves past a method's body.
RECURSIVE ScanMembers(_, _, _, _, _)
ScanMembers(lines, i, startIndex, skipBodies, methods) ==
    IF i > Len(lines) THEN [methods |-> methods, endLine |-> startIndex]
    ELSE IF lines[i] = <<"@", "end">> THEN [methods |-> methods, endLine |-> i]
    ELSE LET method == parseMethod(lines[i], lines, i)
         IN  IF IsMethodLine(lines[i]) /\ method.ok
             THEN ScanMembers(lines,
                      (IF skipBodies THEN method.endLine ELSE i) + 1,
                      startIndex, skipBodies, Append(methods, method))
             ELSE ScanMembers(lines, i + 1, startIndex, skipBodies, methods)

\* parseProtocols(line, lines, startIndex); ok is FALSE for null
parseProtocols(line, lines, startIndex) ==
    LET name == NameAfter(line, <<"@", "protocol">>)
        scan == ScanMembers(lines, startIndex + 1, startIndex, FALSE, << >>)
    IN  IF name = << >> THEN [ok |-> FALSE]
        ELSE [ok |-> TRUE, name |-> name, methods |-> scan.methods,
              endLine |-> scan.endLine]

\* parseCategory(line, lines, startIndex); ok is FALSE for null.  The match
\* is one of /@interface\s+(\w+)\s*\((\w+)\)/.
parseCategory(line, lines, startIndex) ==
    LET Class(k) == SkipSpaces(line, k + 2)
        Paren(k) == SkipSpaces(line, SkipWord(line, Class(k)))
        ks == {k \in 1..Len(line) :
                  /\ At(line, k) = "@" /\ At(line, k + 1) = "interface"
                  /\ Class(k) > k + 2
                  /\ SkipWord(line, Class(k)) > Class(k)
                  /\ At(line, Paren(k)) = "("
                  /\ SkipWord(line, Paren(k) + 1) > Paren(k) + 1
                  /\ At(line, SkipWord(line, Paren(k) + 1)) = ")"}
        at == CHOOSE k \in ks : \A j \in ks : k <= j
        scan == ScanMembers(lines, startIndex + 1, startIndex, TRUE, << >>)
    IN  IF ks = {} THEN [ok |-> FALSE]
        ELSE [ok |-> TRUE,
              className |-> Slice(line, Class(at), SkipWord(line, Class(at)) - 1),
              categoryName |-> Slice(line, Paren(at) + 1,
                                     SkipWord(line, Paren(at) + 1) - 1),
              methods |-> scan.methods, endLine |-> scan.endLine]

\* The IR module that parseObjectiveC starts from.
ObjectiveCModule ==
    [imports |-> << >>, classes |-> << >>, methods |-> << >>,
     functions |-> << >>, variables |-> << >>, protocols |-> << >>,
     categories |-> << >>, blocks |-> << >>, warnings |-> << >>]

\* One turn of the main loop of parseObjectiveC, on line p.i.  p.current is
\* the index of currentClass in result.classes, 0 for null.  p.skipped lists
\* the lines that the turn left without recording anything because no branch
\* takes them or because the declaration they begin is malformed.
parseObjectiveCLine(p) ==
    LET lines == p.lines
        i == p.i
        line == lines[i]
        result == p.result
        Push(field, entry) ==
            [p EXCEPT !.i = i + 1,
                      !.result = [result EXCEPT ![field] = Append(@, entry)]]
        Member(field, entry) ==
            [result EXCEPT !.classes[p.current][field] = Append(@, entry)]
        Continue == [p EXCEPT !.i = i + 1]
        Skip == [p EXCEPT !.i = i + 1, !.skipped = Append(@, i)]
        \* /#import\s+[<"]([^>"]+)[>"]/
        quotes == {"<", ">", "\""}
        Opens(k) == SkipSpaces(line, k + 2)
        Closings(k) == {c \in (Opens(k) + 1)..Len(line) : line[c] \in quotes \ {"<"}}
        Closed(k) == CHOOSE c \in Closings(k) : \A d \in Closings(k) : c <= d
        imports == {k \in 1..Len(line) :
                       /\ At(line, k) = "#" /\ At(line, k + 1) = "import"
                       /\ Opens(k) > k + 2
                       /\ At(line, Opens(k)) \in quotes \ {">"}
                       /\ Closings(k) # {}
                       /\ Closed(k) > Opens(k) + 1}
        import == CHOOSE k \in imports : \A j \in imports : k <= j
        protocol == parseProtocols(line, lines, i)
        category == parseCategory(line, lines, i)
        interface == NameAfter(line, <<"@", "interface">>)
        implementation == NameAfter(line, <<"@", "implementation">>)
        found == {c \in 1..Len(result.classes) :
                      result.classes[c].name = implementation}
        NewClass(name, isInterface) ==
            [name |-> name, properties |-> << >>, methods |-> << >>,
             isInterface |-> isInterface]
        \* /@property\s*(\([^)]*\))?\s*([^;]+)\s+(\w+)/
        props == {q \in 4..Len(line) :
                     /\ IsSpace(line[q])
                     /\ SkipWord(line, q + 1) > q + 1
                     /\ \A j \in 3..(q - 1) : line[j] # ";"}
        prop == CHOOSE q \in props : \A j \in props : q >= j
        method == parseMethod(line, lines, i)
        \* /(\w+)\s*=\s*\^([^{]*)\{/
        Assign(k) == SkipSpaces(line, SkipWord(line, k))
        Caret(k) == SkipSpaces(line, Assign(k) + 1)
        blocks == {k \in 1..Len(line) :
                      /\ SkipWord(line, k) > k
                      /\ At(line, Assign(k)) = "="
                      /\ At(line, Caret(k)) = "^"
                      /\ IndexOf(line, "{", Caret(k) + 1) # 0}
        block == CHOOSE k \in blocks : \A j \in blocks : k <= j
        \* /^\w+\s+\w+\s*\(/
        second == SkipSpaces(line, SkipWord(line, 1))
        isFunction ==
            /\ SkipWord(line, 1) > 1
            /\ second > SkipWord(line, 1)
            /\ SkipWord(line, second) > second
            /\ At(line, SkipSpaces(line, SkipWord(line, second))) = "("
        \* /^\w+\s+\*?\w+\s*[=;]/
        named == IF At(line, second) = "*" THEN second + 1 ELSE second
        isVariable ==
            /\ SkipWord(line, 1) > 1
            /\ second > SkipWord(line, 1)
            /\ SkipWord(line, named) > named
            /\ At(line, SkipSpaces(line, SkipWord(line, named))) \in {"=", ";"}
        braceDepth == p.braceDepth + BraceDelta(line)
    IN  IF \/ StartsWith(line, <<"/", "/">>) \/ StartsWith(line, <<"/", "*">>)
           \/ Includes(line, <<"*">>)
        THEN Continue
        ELSE IF \/ StartsWith(line, <<"#", "import">>)
                \/ StartsWith(line, <<"#", "include">>)
        THEN IF imports = {} THEN Skip
             ELSE Push("imports",
                       Slice(line, Opens(import) + 1, Closed(import) - 1))
        ELSE IF StartsWith(line, <<"@", "protocol">>)
        THEN IF ~protocol.ok THEN Skip
             ELSE [Push("protocols", protocol) EXCEPT !.i = protocol.endLine + 1]
        ELSE IF /\ Includes(line, <<"@", "interface">>)
                /\ Includes(line, <<"(">>) /\ Includes(line, <<")">>)
        THEN IF ~category.ok THEN Skip
             ELSE [Push("categories", category) EXCEPT !.i = category.endLine + 1]
        ELSE IF StartsWith(line, <<"@", "interface">>)
        THEN IF interface = << >> THEN Skip
             ELSE [Push("classes", NewClass(interface, TRUE))
                      EXCEPT !.current = Len(result.classes) + 1]
        ELSE IF StartsWith(line, <<"@", "implementation">>)
        THEN IF implementation = << >> THEN Skip
             ELSE IF found = {}
             THEN [Push("classes", NewClass(implementation, FALSE))
                      EXCEPT !.current = Len(result.classes) + 1]
             ELSE LET c == CHOOSE c \in found : \A d \in found : c <= d
                  IN  [p EXCEPT !.i = i + 1, !.current = c,
                                !.result.classes[c].isInterface = FALSE]
        ELSE IF line = <<"@", "end">>
        THEN [p EXCEPT !.i = i + 1, !.current = 0]
        ELSE IF StartsWith(line, <<"@", "property">>)
        THEN IF props = {} THEN Skip
             ELSE IF p.current = 0 THEN Continue
             ELSE [p EXCEPT !.i = i + 1,
                            !.result = Member("properties",
                                [name |-> Slice(line, prop + 1,
                                                SkipWord(line, prop + 1) - 1)])]
        ELSE IF StartsWith(line, <<"@", "synthesize">>)
        THEN Continue
        ELSE IF IsMethodLine(line)
        THEN IF ~method.ok THEN Skip
             ELSE IF p.current # 0
             THEN [p EXCEPT !.i = method.endLine + 1,
                            !.result = Member("methods", method)]
             ELSE [Push("methods", method) EXCEPT !.i = method.endLine + 1]
        ELSE IF Includes(line, <<"^">>)
        THEN IF blocks = {} THEN Skip
             ELSE Push("blocks",
                       [name |-> Slice(line, block, SkipWord(line, block) - 1),
                        line |-> i])
        ELSE IF isFunction
        THEN \* this.parseFunction is not defined in the class
             [p EXCEPT !.outcome = "failed",
                       !.error = "Objective-C conversion failed: this.parseFunction is not a function"]
        ELSE IF braceDepth = 0 /\ isVariable
        THEN [Push("variables",
                   [name |-> Slice(line, named, SkipWord(line, named) - 1)])
                 EXCEPT !.braceDepth = braceDepth]
        ELSE IF ~isVariable /\ ~Includes(line, <<"{">>) /\ ~Includes(line, <<"}">>)
        THEN Skip
        ELSE [Continue EXCEPT !.braceDepth = braceDepth]

\* s.lastIndexOf(c), 0 when c is not in s
LastIndexOf(s, c) ==
    IF \A k \in 1..Len(s) : s[k] # c THEN 0
    ELSE CHOOSE k \in 1..Len(s) : s[k] = c /\ \A j \in (k + 1)..Len(s) : s[j] # c

\* The loop of parseFunction over the lines after the declaration: the body
\* it collects and the line where the braces balance (startIndex when no
\* body is found).
RECURSIVE ScanFunction(_, _, _, _, _, _)
ScanFunction(lines, i, startIndex, braceDepth, foundOpenBrace, body) ==
    IF i > Len(lines) THEN [body |-> body, endLine |-> startIndex]
    ELSE LET currentLine == lines[i]
             depth == braceDepth + BraceDelta(currentLine)
             beforeBrace == Slice(currentLine, 1,
                                  LastIndexOf(currentLine, "}") - 1)
         IN  IF ~foundOpenBrace /\ ~Includes(currentLine, <<"{">>)
             THEN ScanFunction(lines, i + 1, startIndex, braceDepth, FALSE, body)
             ELSE IF depth = 0
             THEN [body |-> IF Trim(beforeBrace) # << >>
                            THEN body \o beforeBrace \o <<"\n">> ELSE body,
                   endLine |-> i]
             ELSE ScanFunction(lines, i + 1, startIndex, depth, TRUE,
                               body \o currentLine \o <<"\n">>)

\* a parseFunction that ends on the line before the declaration
parseFunctionEndingBefore(line, lines, startIndex) ==
    [ok |-> TRUE, name |-> NameAfter(line, <<"func">>), body |-> << >>,
     endLine |-> startIndex - 1]

\* parseFunction(line, lines, startIndex) of SwiftConverter; ok is FALSE for
\* null.  The match is one of /func\s+(\w+)\s*\(([^)]*)\)/.
parseFunction(line, lines, startIndex) ==
    LET Named(k) == SkipSpaces(line, k + 1)
        Paren(k) == SkipSpaces(line, SkipWord(line, Named(k)))
        ks == {k \in 1..Len(line) :
                  /\ Part(line[k], "func", TRUE, FALSE)
                  /\ Named(k) > k + 1
                  /\ SkipWord(line, Named(k)) > Named(k)
                  /\ At(line, Paren(k)) = "("
                  /\ IndexOf(line, ")", Paren(k) + 1) # 0}
        at == CHOOSE k \in ks : \A j \in ks : k <= j
        name == Slice(line, Named(at), SkipWord(line, Named(at)) - 1)
        foundOpenBrace == Includes(line, <<"{">>)
        braceDepth == IF foundOpenBrace THEN BraceDelta(line) ELSE 0
        samLineBody == Slice(line, IndexOf(line, "{", 1) + 1, Len(line))
        scan == ScanFunction(lines, startIndex + 1, startIndex, braceDepth,
                    foundOpenBrace,
                    IF foundOpenBrace THEN samLineBody \o <<"\n">> ELSE << >>)
    IN  IF ks = {} THEN [ok |-> FALSE]
        ELSE IF /\ foundOpenBrace /\ braceDepth = 0
                /\ Includes(samLineBody, <<"}">>)
        THEN [ok |-> TRUE, name |-> name,
              body |-> Trim(Slice(samLineBody, 1,
                                  LastIndexOf(samLineBody, "}") - 1)),
              endLine |-> startIndex]
        ELSE [ok |-> TRUE, name |-> name, body |-> Trim(scan.body),
              endLine |-> scan.endLine]

\* parseInitializer(line, lines, startIndex); ok is FALSE for null.  The
\* match is one of /init\s*\(([^)]*)\)/.
parseInitializer(line, lines, startIndex) ==
    LET scan == ScanBody(lines, startIndex, startIndex, 0, 0)
    IN  IF \E k \in 1..Len(line) :
               /\ Part(line[k], "init", TRUE, FALSE)
               /\ At(line, SkipSpaces(line, k + 1)) = "("
               /\ IndexOf(line, ")", SkipSpaces(line, k + 1) + 1) # 0
        THEN [ok |-> TRUE, body |-> BodyOf(lines, scan),
              endLine |-> scan.bodyEnd]
        ELSE [ok |-> FALSE]

\* The loop of parseProperty over the lines of a computed property: the line
\* where the property ends, startIndex when the loop runs out of lines.
RECURSIVE ScanProperty(_, _, _, _, _, _)
ScanProperty(lines, i, startIndex, braceDepth, inGetter, inSetter) ==
    IF i > Len(lines) THEN startIndex
    ELSE LET currentLine == lines[i]
             depth == braceDepth + BraceDelta(currentLine)
             isGet == Includes(currentLine, <<"get", " ", "{">>)
             isSet == ~isGet /\ Includes(currentLine, <<"set", " ", "{">>)
             getter == isGet \/ (inGetter /\ ~isSet)
             setter == isSet \/ (inSetter /\ ~isGet)
         IN  IF ~isGet /\ ~isSet /\ depth = 0 THEN i
             ELSE IF /\ depth = 1 /\ Includes(currentLine, <<"return">>)
                     /\ ~getter /\ ~setter
                     /\ i + 1 <= Len(lines) /\ Includes(lines[i + 1], <<"}">>)
             THEN i + 1
             ELSE ScanProperty(lines, i + 1, startIndex, depth, getter, setter)

\* parseProperty(line, lines, startIndex); ok is FALSE for null.  The match
\* is one of /(var|let)\s+(\w+)/.
parseProperty(line, lines, startIndex) ==
    LET Named(k) == SkipSpaces(line, k + 1)
        ks == {k \in 1..Len(line) :
                  /\ \/ Part(line[k], "var", TRUE, FALSE)
                     \/ Part(line[k], "let", TRUE, FALSE)
                  /\ Named(k) > k + 1
                  /\ SkipWord(line, Named(k)) > Named(k)}
        at == CHOOSE k \in ks : \A j \in ks : k <= j
        braceBelow == startIndex + 1 <= Len(lines) /\ lines[startIndex + 1] = <<"{">>
        startLine == IF ~Includes(line, <<"{">>) /\ braceBelow
                     THEN startIndex + 1 ELSE startIndex
    IN  IF ks = {} THEN [ok |-> FALSE]
        ELSE [ok |-> TRUE,
              name |-> Slice(line, Named(at), SkipWord(line, Named(at)) - 1),
              isConstant |-> Part(line[at], "let", TRUE, FALSE),
              endLine |-> IF Includes(line, <<"{">>) \/ braceBelow
                          THEN ScanProperty(lines, startLine, startIndex, 0,
                                            FALSE, FALSE)
                          ELSE startIndex]

\* The IR module that parseSwift starts from.  declarations holds the
\* classes, structs, enums, protocols and extensions in the order of their
\* declaration: result.classes is the entries of type 'class', and so on.
SwiftModule ==
    [imports |-> << >>, declarations |-> << >>, functions |-> << >>,
     variables |-> << >>, closures |-> << >>, warnings |-> << >>]

\* One turn of the main loop of parseSwift, on line p.i.  p.current is the
\* index of currentContext in result.declarations, 0 for null, and
\* p.contextStack holds such indexes.  p.skipped is as in
\* parseObjectiveCLine.
parseSwiftLine(p) ==
    LET lines == p.lines
        i == p.i
        line == lines[i]
        result == p.result
        context == IF p.current = 0 THEN "none"
                   ELSE result.declarations[p.current].type
        Push(field, entry) ==
            [p EXCEPT !.i = i + 1,
                      !.result = [result EXCEPT ![field] = Append(@, entry)]]
        Member(field, entry) ==
            [result EXCEPT !.declarations[p.current][field] = Append(@, entry)]
        Continue == [p EXCEPT !.i = i + 1]
        Skip == [p EXCEPT !.i = i + 1, !.skipped = Append(@, i)]
        types == <<"class", "struct", "enum", "protocol", "extension">>
        declared == {n \in 1..Len(types) : Includes(line, <<types[n], " ">>)}
        type == types[CHOOSE n \in declared : \A m \in declared : n <= m]
        func == parseFunction(line, lines, i)
        init == parseInitializer(line, lines, i)
        \* /^\s*(?:public\s+|private\s+|internal\s+|fileprivate\s+|open\s+)?
        \*  (?:static\s+|lazy\s+|weak\s+|unowned\s+)?(?:var|let)\s+/
        After(k, modifiers) ==
            IF At(line, k) \in modifiers /\ SkipSpaces(line, k + 1) > k + 1
            THEN SkipSpaces(line, k + 1) ELSE k
        keyword == After(After(SkipSpaces(line, 1),
                         {"public", "private", "internal", "fileprivate", "open"}),
                         {"static", "lazy", "weak", "unowned"})
        isProperty == /\ At(line, keyword) \in {"var", "let"}
                      /\ SkipSpaces(line, keyword + 1) > keyword + 1
        property == parseProperty(line, lines, i)
        case == NameAfter(line, <<"case">>)
        \* the braces of the line and the pop of the context stack
        braceDepth == p.braceDepth + BraceDelta(line)
        pops == Includes(line, <<"}">>) /\ braceDepth = Len(p.contextStack) - 1
        popped == Slice(p.contextStack, 1, Len(p.contextStack) - 1)
        Tracked(q) ==
            [q EXCEPT !.braceDepth = braceDepth,
                      !.contextStack = IF pops THEN popped ELSE @,
                      !.current = IF ~pops THEN @
                                  ELSE IF popped = << >> THEN 0
                                  ELSE popped[Len(popped)]]
        \* /\{([^}]*)\s+in/
        isClosure ==
            \E o \in 1..Len(line) : \E q \in (o + 1)..(Len(line) - 1) :
                /\ line[o] = "{" /\ IsSpace(line[q])
                /\ Part(line[q + 1], "in", FALSE, TRUE)
                /\ \A j \in (o + 1)..(q - 1) : line[j] # "}"
    IN  IF \/ StartsWith(line, <<"/", "/">>) \/ StartsWith(line, <<"/", "*">>)
           \/ StartsWith(line, <<"*">>)
        THEN Continue
        ELSE IF StartsWith(line, <<"import", " ">>)
        THEN Push("imports", Slice(line, SkipSpaces(line, 2), Len(line)))
        ELSE IF declared # {}
        THEN IF NameAfter(line, <<type>>) = << >> THEN Skip
             ELSE [Push("declarations",
                        [type |-> type, name |-> NameAfter(line, <<type>>),
                         properties |-> << >>, methods |-> << >>,
                         initializers |-> << >>, cases |-> << >>,
                         requirements |-> << >>])
                      EXCEPT !.current = Len(result.declarations) + 1,
                             !.contextStack =
                                 Append(@, Len(result.declarations) + 1)]
        ELSE IF Includes(line, <<"func", " ">>)
        THEN IF ~func.ok THEN Skip
             ELSE IF context \in {"class", "struct", "extension"}
             THEN [p EXCEPT !.i = func.endLine + 1,
                            !.result = Member("methods", func)]
             ELSE IF context = "protocol"
             THEN [p EXCEPT !.i = func.endLine + 1,
                            !.result = Member("requirements", func)]
             ELSE [Push("functions", func) EXCEPT !.i = func.endLine + 1]
        ELSE IF Includes(line, <<"init", "(">>)
        THEN IF ~init.ok THEN Skip
             ELSE IF context \in {"class", "struct"}
             THEN [p EXCEPT !.i = init.endLine + 1,
                            !.result = Member("initializers", init)]
             ELSE Continue
        ELSE IF isProperty
        THEN IF ~property.ok THEN Skip
             ELSE IF context \in {"class", "struct"}
             THEN [p EXCEPT !.i = property.endLine + 1,
                            !.result = Member("properties", property)]
             ELSE Push("variables", property)
        ELSE IF Includes(line, <<"case", " ">>) /\ context = "enum"
        THEN IF case = << >> THEN Skip
             ELSE [p EXCEPT !.i = i + 1,
                            !.result = Member("cases", [name |-> case])]
        ELSE IF /\ Includes(line, <<"{">>) /\ Includes(line, <<"in">>)
                /\ isClosure
        THEN Tracked(Push("closures", [line |-> i]))
        ELSE IF ~Includes(line, <<"{">>) /\ ~Includes(line, <<"}">>)
        THEN Skip
        ELSE Tracked(Continue)

MaxLines == 3

\* The sources given to ObjectiveCConverter.convert: the texts of up to
\* MaxLines of the frequent lines, each other line alone, and declarations
\* with members.
ObjectiveCSources ==
    LET interface == <<"@", "interface", " ", "A">>
        end == <<"@", "end">>
        method == <<"-", " ", "(", "void", ")", "f", " ", "{">>
        close == <<"}">>
        function == <<"int", " ", "main", "(", ")", " ", "{">>
        unknown == <<"f", " ", "g", " ", "h">>
        variable == <<"int", " ", "x", " ", "=", " ", "1", ";">>
        property == <<"@", "property", " ", "int", " ", "x", ";">>
        pointer == <<"@", "property", " ", "A", " ", "*", "y", ";">>
        returning == <<"-", " ", "(", "A", " ", "*", ")", "h", ";">>
        declaration == <<"-", " ", "(", "void", ")", "g", ";">>
        protocol == <<"@", "protocol", " ", "P">>
        category == <<"@", "interface", " ", "A", " ", "(", "B", ")">>
        implementation == <<"@", "implementation", " ", "A">>
        call == <<"return", " ", "g", " ", "(", "x", ")", ";">>
    IN  UNION {[1..n -> {interface, end, method, close, function, unknown,
                         variable}] : n \in 1..MaxLines}
        \cup {<<line>> : line \in
                 {property, pointer, declaration, protocol, category,
                  implementation, call,
                  <<"-", " ", "(", "void", ")">>,
                  <<"#", "import", " ", "<", "A", ".", "h", ">">>,
                  <<"#", "import", " ", "A">>,
                  <<"x", " ", "=", " ", "^", "{">>,
                  <<"/", "/", " ", "c">>,
                  <<"@", "synthesize", " ", "x", ";">>,
                  <<"@", "interface">>,
                  <<" ", " ", "}">>,
                  << >>}}
        \cup {<<interface, property, pointer, declaration, end>>,
              <<interface, returning, end>>,
              <<protocol, declaration, method, close, end>>,
              <<category, method, close, end, function>>,
              <<interface, end, implementation, method, call, close, end>>}

\* The sources given to SwiftConverter.convert, chosen likewise.
SwiftSources ==
    LET class == <<"class", " ", "A", " ", "{">>
        close == <<"}">>
        func == <<"func", " ", "f", "(", ")", " ", "{">>
        requirement == <<"func", " ", "g", "(", ")", " ", "-", ">", " ", "Int">>
        variable == <<"var", " ", "x", " ", "=", " ", "1">>
        unknown == <<"f", " ", "g", " ", "h">>
        nameless == <<"class", " ", "{">>
        init == <<"init", "(", ")", " ", "{">>
        computed == <<"var", " ", "y", ":", " ", "Int", " ", "{">>
        return == <<"return", " ", "1">>
        get == <<"get", " ", "{">>
        enum == <<"enum", " ", "E", " ", "{">>
        case == <<"case", " ", "a">>
        protocol == <<"protocol", " ", "P", " ", "{">>
        extension == <<"extension", " ", "A", " ", "{">>
        struct == <<"struct", " ", "T", " ", "{">>
        closure == <<"f", " ", "{", " ", "x", " ", "in">>
    IN  UNION {[1..n -> {class, close, func, requirement, variable, unknown,
                         nameless}] : n \in 1..MaxLines}
        \cup {<<line>> : line \in
                 {init, computed, return, get, enum, case, protocol,
                  extension, struct, closure,
                  <<"func", " ", "h", "(", ")", " ", "{", " ", "return",
                    " ", "1", " ", "}">>,
                  <<"func", " ", "(">>,
                  <<"import", " ", "Foundation">>,
                  <<"/", "/", " ", "c">>,
                  <<"let", " ", "(", "a", ",", " ", "b", ")", " ", "=", " ", "t">>,
                  <<"print", " ", "{", " ", "x", " ", "}">>,
                  <<" ", " ", "}">>,
                  << >>}}
        \cup {<<class, init, close, computed, return, close, close, func, close>>,
              <<enum, case, close, variable>>,
              <<protocol, requirement, close, func, close>>,
              <<struct, computed, get, return, close, close, close>>,
              <<extension, func, closure, close, close, close>>}

\* A convert() call of a converter whose cache is empty, at the start of the
\* parsing step.
ParseRun(converter, code, module) ==
    [converter |-> converter, code |-> code, lines |-> SplitLines(code),
     i |-> 1, result |-> module, current |-> 0, braceDepth |-> 0,
     contextStack |-> << >>, skipped |-> << >>, outcome |-> "parsing",
     error |-> Undefined, response |-> NoResult]

InitParse ==
    /\ parsing \in
           {ParseRun("ObjectiveCConverter", code, ObjectiveCModule) :
                code \in ObjectiveCSources}
           \cup {ParseRun("SwiftConverter", code, SwiftModule) :
                     code \in SwiftSources}
    /\ compilationCache = Idle /\ stats = Idle /\ pending = Idle
    /\ lastCall = Idle /\ completed = Idle /\ session = Idle
    /\ translationCache = Idle /\ clock = Idle /\ translation = Idle
    /\ issued = Idle /\ responses = Idle
    /\ converters = Idle /\ conversion = Idle
    /\ inflight = Idle /\ handling = Idle

\* a turn of the main loop of ObjectiveCConverter.parseObjectiveC; what the
\* turn throws leaves parseObjectiveC and is caught and thrown on by convert
parseObjectiveC ==
    /\ parsing.converter = "ObjectiveCConverter"
    /\ parsing.outcome = "parsing"
    /\ parsing.i <= Len(parsing.lines)
    /\ parsing' = parseObjectiveCLine(parsing)
    /\ UNCHANGED <<engineVars, session, translatorVars, responses, serverVars>>

\* a turn of the main loop of SwiftConverter.parseSwift
parseSwift ==
    /\ parsing.converter = "SwiftConverter"
    /\ parsing.outcome = "parsing"
    /\ parsing.i <= Len(parsing.lines)
    /\ parsing' = parseSwiftLine(parsing)
    /\ UNCHANGED <<engineVars, session, translatorVars, responses, serverVars>>

\* The parser returns the IR module and convert builds its result from it
\* (the generated code is not part of this model).
convert ==
    LET result == parsing.result
        Count(type) == Len(SelectSeq(result.declarations,
                                     LAMBDA d : d.type = type))
    IN  /\ parsing.outcome = "parsing"
        /\ parsing.i > Len(parsing.lines)
        /\ parsing' =
               [parsing EXCEPT
                   !.outcome = "converted",
                   !.response =
                       [success |-> "true",
                        warnings |-> result.warnings,
                        metadata |->
                            IF parsing.converter = "ObjectiveCConverter"
                            THEN [originalLines |-> Len(parsing.code),
                                  classes |-> Len(result.classes),
                                  methods |-> Len(result.methods)]
                            ELSE [originalLines |-> Len(parsing.code),
                                  classes |-> Count("class"),
                                  structs |-> Count("struct"),
                                  functions |-> Len(result.functions),
                                  protocols |-> Count("protocol"),
                                  extensions |-> Count("extension")]]]
        /\ UNCHANGED <<engineVars, session, translatorVars, responses,
                       serverVars>>

NextParse == parseObjectiveC \/ parseSwift \/ convert

SpecParse == InitParse /\ [][NextParse]_vars

\* C4: parsing never throws: whatever the lines of the source, malformed
\* declarations and lines of a shape the parser does not handle included,
\* parseObjectiveC and parseSwift return an IR module, and convert does not
\* fail in the parsing step.
C4_ParsingNeverThrows == parsing.outcome # "failed"

\* C5: a parser that skips a line it does not recognise or a malformed
\* declaration records a warning in the IR module, so the warnings of the
\* module, and those of the result of convert, are not empty then.
C5_SkippedLinesAreWarned ==
    parsing.skipped # << >> =>
        /\ parsing.result.warnings # << >>
        /\ parsing.outcome = "converted" => parsing.response.warnings # << >>

\* C25: in parseSwift the closing brace of the body of a declaration pops
\* the declaration from the context stack and the context goes back to the
\* declaration around it, or to none: the brace depth is never negative, at
\* a line before which every brace of the source is closed no declaration
\* is open, and what such a line declares is not made a member of a
\* declaration.
C25_ClosedDeclarationIsPopped ==
    [][(/\ parsing.converter = "SwiftConverter"
        /\ parsing.outcome = "parsing"
        /\ parsing'.outcome = "parsing"
        /\ parsing.i <= Len(parsing.lines))
       => LET RECURSIVE Depth(_)
              \* the braces that are open before line k
              Depth(k) == IF k <= 1 THEN 0
                          ELSE Depth(k - 1) + BraceDelta(parsing.lines[k - 1])
              nested == \A k \in 1..parsing.i + 1 : Depth(k) >= 0
          IN  /\ nested => parsing'.braceDepth >= 0
              /\ (nested /\ Depth(parsing.i) = 0) =>
                     /\ parsing.current = 0
                     /\ parsing.contextStack = << >>
                     /\ \A d \in DOMAIN parsing.result.declarations :
                            parsing'.result.declarations[d] =
                                parsing.result.declarations[d]]_vars

\* C27: parseFunction on the line of a function that has no body, such as
\* the requirement of a protocol, takes that line only: the function it
\* returns has an empty body and ends on the line of the declaration, and
\* the main loop of parseSwift goes on with the line that follows.
C27_BodylessFunctionTakesItsLine ==
    [][(/\ parsing.converter = "SwiftConverter"
        /\ parsing.outcome = "parsing"
        /\ parsing'.outcome = "parsing"
        /\ parsing.i <= Len(parsing.lines))
       => LET line == parsing.lines[parsing.i]
              func == parseFunction(line, parsing.lines, parsing.i)
              declares ==
                  /\ ~StartsWith(line, <<"/", "/">>)
                  /\ ~StartsWith(line, <<"/", "*">>)
                  /\ ~StartsWith(line, <<"*">>)
                  /\ ~StartsWith(line, <<"import", " ">>)
                  /\ \A type \in {"class", "struct", "enum", "protocol",
                                  "extension"} : ~Includes(line, <<type, " ">>)
                  /\ Includes(line, <<"func", " ">>)
                  /\ ~Includes(line, <<"{">>)
                  /\ func.ok
          IN  declares =>
                  /\ func.body = << >>
                  /\ func.endLine = parsing.i
                  /\ parsing'.i = parsing.i + 1]_vars

\* C26: parsing terminates.  In parseSwift and in parseObjectiveC the line
\* where a sub-parser ends (a function, an initializer, a property, a
\* method, a protocol, a category) is never before the line it started on,
\* every turn of the main loop leaves the cursor on a later line, at most
\* one past the last line, so no line is visited twice, and past the last
\* line the parser returns.
C26_ParsingTerminates ==
    [][parsing.outcome = "parsing"
       => LET lines == parsing.lines
              i == parsing.i
              NotBefore(sub) == sub.ok => sub.endLine >= i
          IN  /\ parsing'.lines = lines
              /\ i > Len(lines) => parsing'.outcome # "parsing"
              /\ i <= Len(lines) =>
                     /\ parsing.converter = "SwiftConverter" =>
                            /\ NotBefore(parseFunction(lines[i], lines, i))
                            /\ NotBefore(parseInitializer(lines[i], lines, i))
                            /\ NotBefore(parseProperty(lines[i], lines, i))
                     /\ parsing.converter = "ObjectiveCConverter" =>
                            /\ NotBefore(parseMethod(lines[i], lines, i))
                            /\ NotBefore(parseProtocols(lines[i], lines, i))
                            /\ NotBefore(parseCategory(lines[i], lines, i))
                     /\ parsing'.outcome = "parsing" =>
                            /\ parsing'.i > i
                            /\ parsing'.i <= Len(lines) + 1]_vars

\* a function of several lines was taken in one turn of the loop of
\* parseSwift, and a method with its body in one turn of parseObjectiveC,
\* and the parser has returned
C26_Witness ==
    /\ parsing.outcome = "converted"
    /\ \/ /\ parsing.converter = "SwiftConverter"
          /\ \E f \in 1..Len(parsing.result.functions) :
                 parsing.result.functions[f].endLine >= 2
       \/ /\ parsing.converter = "ObjectiveCConverter"
          /\ \E c \in 1..Len(parsing.result.classes) :
                 \E f \in 1..Len(parsing.result.classes[c].methods) :
                     parsing.result.classes[c].methods[f].endLine >= 3

\* C30: parseObjectiveC takes a line for a comment only when the line starts
\* with a comment marker.  Inside an open @interface or @implementation the
\* line of an @property with a pointer type, and the line of a method whose
\* signature has a pointer type, both of which hold a '*', are recorded as
\* a property and as a method of that class.
C30_PointerDeclarationsAreRecorded ==
    [][(/\ parsing.converter = "ObjectiveCConverter"
        /\ parsing.outcome = "parsing"
        /\ parsing.i <= Len(parsing.lines)
        /\ parsing.current # 0)
       => LET line == parsing.lines[parsing.i]
              class == parsing.result.classes[parsing.current]
              class_ == parsing'.result.classes[parsing.current]
              isComment == \/ StartsWith(line, <<"/", "/">>)
                           \/ StartsWith(line, <<"/", "*">>)
                           \/ StartsWith(line, <<"*">>)
          IN  (Includes(line, <<"*">>) /\ ~isComment) =>
                  /\ StartsWith(line, <<"@", "property">>) =>
                         Len(class_.properties) = Len(class.properties) + 1
                  /\ (IsMethodLine(line)
                          /\ parseMethod(line, parsing.lines, parsing.i).ok) =>
                         Len(class_.methods) = Len(class.methods) + 1]_vars

-----------------------------------------------------------------------------
(* JITConverter: convert, getStats, clearCache                             *)
(*                                                                         *)
(* A JavaScript value given as instructions is a record: a string with its *)
(* lines, each a sequence of chunks, or an object with its functions.  The *)
(* functions of the object given are an empty array.                       *)

\* Object.keys(this.supportedFormats)
supportedFormats ==
    <<"ios-llvm", "android-art", "wasm", "java-hotspot", "dotnet-clr",
      "v8-bytecode", "spidermonkey", "chakra", "assembly">>

\* this.supportedFormats[sourceFormat].  supportedFormats is an object
\* literal, so that the lookup finds the nine lowering functions and, for
\* any other name, what Object.prototype has under that name.
FormatEntry(sourceFormat) ==
    IF \E i \in 1..Len(supportedFormats) : supportedFormats[i] = sourceFormat
    THEN "lowering"
    ELSE IF sourceFormat = "constructor" THEN "Object"
    ELSE IF sourceFormat \in {"toString", "toLocaleString", "valueOf",
                              "hasOwnProperty", "isPrototypeOf",
                              "propertyIsEnumerable"}
    THEN "method of Object.prototype"
    ELSE IF sourceFormat = "__proto__" THEN "Object.prototype"
    ELSE Undefined

\* what a call returns, or the message of the Error it throws
Returns(value) == [threw |-> FALSE, message |-> Undefined, value |-> value]

Throws(message) == [threw |-> TRUE, message |-> message, value |-> NoResult]

\* parseIOSInstruction(line) on a trimmed line of chunks, a register %name
\* being the chunk "%" before a word: the first of the patterns load, store,
\* add, call, ret that matches gives the op, and the captured groups that
\* are not empty give the args.  The instruction is returned as a sequence
\* of one element, and null, when none matches, as the empty sequence.
parseIOSInstruction(line) ==
    LET IsRegister(i) ==
            /\ i >= 1 /\ i < Len(line) /\ line[i] = "%"
            /\ IsWord(line[i + 1]) /\ line[i + 1] # "%"
        Register(i) == "%" \o line[i + 1]
        ChunkAt(i) == IF i \in DOMAIN line THEN line[i] ELSE Undefined
        \* (%\w+)\s*=\s*KEYWORD starting at chunk i: the index after KEYWORD
        Assigned(i, keyword) ==
            LET equals == SkipSpaces(line, i + 2)
                word   == SkipSpaces(line, equals + 1)
            IN  IF /\ IsRegister(i) /\ ChunkAt(equals) = "="
                   /\ ChunkAt(word) = keyword
                THEN word + 1 ELSE 0
        RegistersFrom(i) == {j \in i..Len(line) : IsRegister(j)}
        Least(indices) == CHOOSE i \in indices : \A j \in indices : i <= j
        loads == {i \in DOMAIN line :
                     /\ Assigned(i, "load") # 0
                     /\ RegistersFrom(Assigned(i, "load")) # {}}
        store == IndexOf(line, "store", 1)
        stored == IF store = 0 THEN {} ELSE RegistersFrom(store + 1)
        second == IF stored = {} THEN {}
                  ELSE RegistersFrom(Least(stored) + 2)
        \* .*?(%\w+),\s*(%\w+) after the keyword
        Pairs(from) ==
            {j \in RegistersFrom(from) :
                /\ ChunkAt(j + 2) = ","
                /\ IsRegister(SkipSpaces(line, j + 3))}
        adds == {i \in DOMAIN line :
                    /\ Assigned(i, "add") # 0
                    /\ Pairs(Assigned(i, "add")) # {}}
        call == IndexOf(line, "call", 1)
        called == IF call = 0 THEN {}
                  ELSE {j \in call + 1..Len(line) - 1 :
                           line[j] = "@" /\ IsWord(line[j + 1])}
        Instruction(op, args) ==
            <<[op |-> op, args |-> args, type |-> "llvm"]>>
    IN  CASE loads # {} ->
                 Instruction("load",
                     <<Register(Least(loads)),
                       Register(Least(RegistersFrom(
                           Assigned(Least(loads), "load"))))>>)
          [] loads = {} /\ second # {} ->
                 Instruction("store",
                     <<Register(Least(stored)), Register(Least(second))>>)
          [] loads = {} /\ second = {} /\ adds # {} ->
                 LET first == Least(Pairs(Assigned(Least(adds), "add")))
                 IN  Instruction("add",
                         <<Register(Least(adds)), Register(first),
                           Register(SkipSpaces(line, first + 3))>>)
          [] loads = {} /\ second = {} /\ adds = {} /\ called # {} ->
                 Instruction("call", <<line[Least(called) + 1]>>)
          [] /\ loads = {} /\ second = {} /\ adds = {} /\ called = {}
             /\ IndexOf(line, "ret", 1) # 0 ->
                 \* the lazy .*? takes nothing and the optional group, tried
                 \* right after ret, captures only what touches it
                 Instruction("ret",
                     IF IsRegister(IndexOf(line, "ret", 1) + 1)
                     THEN <<Register(IndexOf(line, "ret", 1) + 1)>>
                     ELSE << >>)
          [] OTHER -> << >>

\* the loop of convertIOSLLVM over the lines from line i on: the functions
\* with their instructions; a line that starts with define opens a function
\* when the pattern of a definition matches it, and any other line that is
\* not empty adds its instruction, if it has one, to the function open
RECURSIVE convertIOSLLVM(_, _, _)
convertIOSLLVM(lines, i, functions) ==
    IF i > Len(lines) THEN functions
    ELSE LET trimmedLine == lines[i]
             names == {j \in 4..Len(trimmedLine) - 2 :
                          /\ trimmedLine[j] = "@"
                          /\ IsSpace(trimmedLine[j - 1])
                          /\ IsWord(trimmedLine[j + 1])
                          /\ SkipSpaces(trimmedLine, j + 2) <= Len(trimmedLine)
                          /\ trimmedLine[SkipSpaces(trimmedLine, j + 2)] = "("}
             name == CHOOSE j \in names : \A k \in names : k <= j
             instruction == parseIOSInstruction(trimmedLine)
         IN  convertIOSLLVM(lines, i + 1,
                 IF trimmedLine # << >> /\ trimmedLine[1] = "define"
                 THEN IF Len(trimmedLine) > 1 /\ IsSpace(trimmedLine[2])
                         /\ names # {}
                      THEN Append(functions,
                               [name |-> trimmedLine[name + 1],
                                instructions |-> << >>])
                      ELSE functions
                 ELSE IF functions # << >> /\ trimmedLine # << >>
                 THEN [functions EXCEPT
                          ![Len(functions)].instructions = @ \o instruction]
                 ELSE functions)

\* convertInstructionToJS(instruction, sourceType): the statement, in chunks
convertInstructionToJS(instruction) ==
    LET args == instruction.args
        Arg(k) == IF k <= Len(args) THEN args[k] ELSE "undefined"
        Binary(operator) ==
            <<"var", " ", Arg(1), " ", "=", " ", Arg(2), " ", operator, " ",
              Arg(3), ";">>
        RECURSIVE Joined(_)
        Joined(k) ==
            IF k > Len(args) THEN << >>
            ELSE (IF k > 2 THEN <<",", " ">> ELSE << >>)
                     \o <<args[k]>> \o Joined(k + 1)
    IN  CASE instruction.op = "load" ->
                 <<"var", " ", Arg(1), " ", "=", " ", Arg(2), ";">>
          [] instruction.op = "store" ->
                 <<Arg(1), " ", "=", " ", Arg(2), ";">>
          [] instruction.op = "add" -> Binary("+")
          [] instruction.op = "sub" -> Binary("-")
          [] instruction.op = "mul" -> Binary("*")
          [] instruction.op = "div" -> Binary("/")
          [] instruction.op = "call" ->
                 <<Arg(1), "(">> \o Joined(2) \o <<")", ";">>
          [] instruction.op = "return" ->
                 \* args[0] || ''
                 <<"return", " ">>
                     \o (IF args = << >> THEN << >> ELSE <<args[1]>>) \o <<";">>
          [] instruction.op = "branch" ->
                 <<"if", " ", "(", Arg(1), ")", " ", "{", " ",
                   "/* branch logic */", " ", "}">>
          [] instruction.op = "loop" ->
                 <<"for", " ", "(", "var", " ", "i", " ", "=", " ", "0", ";",
                   " ", "i", " ", "<", " ", Arg(1), ";", " ", "i", "++", ")",
                   " ", "{", " ", "/* loop body */", " ", "}">>
          [] OTHER ->
                 <<"//", " ", "Unknown", " ", "instruction", ":", " ",
                   instruction.op>>

\* await this.supportedFormats[sourceFormat](instructions, options): the
\* intermediate representation, of which the type and the functions are kept.
\* convertIOSLLVM splits its argument into lines; convertAndroidART and
\* convertWebAssembly convert the instructions that parseARTMethods and
\* parseWASMFunctions give, which are the same for every method and for
\* every (func ...) of the text; the six lowerings whose parsers are stubs
\* make no function of any argument; Object(instructions)
\* is the object itself, or a String object, and a method of Object.prototype
\* returns a value that has no functions.
Lowered(sourceFormat, instructions) ==
    LET entry == FormatEntry(sourceFormat)
        Intermediate(type, hasFunctions, functions) ==
            [type |-> type, hasFunctions |-> hasFunctions,
             functions |-> functions]
    IN  CASE entry = "lowering" /\ sourceFormat = "ios-llvm" ->
                 IF instructions.type = "string"
                 THEN Returns(Intermediate("ios-llvm", TRUE,
                          convertIOSLLVM(instructions.lines, 1, << >>)))
                 ELSE Throws("llvmIR.split is not a function")
          [] entry = "lowering" /\ sourceFormat = "android-art" ->
                 \* convertARTInstruction of invoke-virtual and return-void
                 Returns(Intermediate("android-art", TRUE,
                     <<[name |-> "methodFromART",
                        instructions |->
                            <<[op |-> "call", args |-> <<"v0", "method">>],
                              [op |-> "return", args |-> << >>]>>]>>))
          [] entry = "lowering" /\ sourceFormat = "wasm" ->
                 \* convertWASMInstruction of local.get and i32.add, for
                 \* every match of the pattern of a function; the text of a
                 \* binary is '(module)'
                 LET text == IF instructions.type = "string"
                             THEN JoinLines(instructions.lines) ELSE << >>
                     RECURSIVE Matches(_)
                     Matches(from) ==
                         LET starts == {i \in from..Len(text) - 1 :
                                           /\ text[i] = "("
                                           /\ text[i + 1] = "func"
                                           /\ IndexOf(text, ")", i + 2) # 0}
                             start == CHOOSE i \in starts :
                                          \A j \in starts : i <= j
                         IN  IF starts = {} THEN 0
                             ELSE 1 + Matches(IndexOf(text, ")", start + 2) + 1)
                 IN  Returns(Intermediate("wasm", TRUE,
                         [index \in 1..Matches(1) |->
                             [name |-> "wasmFunc" \o ToString(index - 1),
                              instructions |->
                                  <<[op |-> "load", args |-> <<"param0">>],
                                    [op |-> "add",
                                     args |-> <<"result", "a", "b">>]>>]]))
          [] entry = "lowering"
             /\ sourceFormat \in {"java-hotspot", "dotnet-clr", "v8-bytecode",
                                  "spidermonkey", "chakra", "assembly"} ->
                 Returns(Intermediate(sourceFormat, TRUE, << >>))
          [] entry = "Object" ->
                 IF instructions.type = "object"
                 THEN Returns(Intermediate(Undefined, TRUE,
                                           instructions.functions))
                 ELSE Returns(Intermediate(Undefined, FALSE, << >>))
          [] entry = "method of Object.prototype" ->
                 Returns(Intermediate(Undefined, FALSE, << >>))
          [] entry = "Object.prototype" ->
                 Throws("this.supportedFormats[sourceFormat] is not a function")

\* convertToNodeJS(intermediate, options): generateV8OptimizationHints reads
\* intermediate.functions.flatMap.  Of the result the source format, the
\* optimizations and, of the code, the statements that convertFunctionToJS
\* writes for the instructions of each function are kept.
convertToNodeJS(intermediate) ==
    IF ~intermediate.hasFunctions
    THEN Throws("Cannot read properties of undefined (reading 'flatMap')")
    ELSE Returns([success |-> "true", optimizations |-> << >>,
                  code |->
                      [f \in DOMAIN intermediate.functions |->
                          [k \in DOMAIN intermediate.functions[f].instructions |->
                              convertInstructionToJS(
                                  intermediate.functions[f].instructions[k])]],
                  metadata |-> [sourceFormat |-> intermediate.type,
                                targetFormat |-> "nodejs"]])

\* md5(JSON.stringify({ instructions, sourceFormat, options })), md5 taken
\* as collision-free
generateConversionKey(instructions, sourceFormat, options) ==
    [instructions |-> instructions, sourceFormat |-> sourceFormat,
     options |-> options]

MaxConversions == 2

\* a text of LLVM IR, a text of WebAssembly and an object of the shape of
\* an intermediate representation
InstructionSets ==
    {[type |-> "string",
      lines |-> << <<"define", " ", "i32", " ", "@", "sum", "(", "i32", " ",
                     "%", "a", ",", " ", "i32", " ", "%", "b", ")", " ", "{">>,
                   <<"%", "r", " ", "=", " ", "add", " ", "i32", " ", "%", "a",
                     ",", " ", "%", "b">>,
                   <<"call", " ", "void", " ", "@", "log", "(", ")">>,
                   <<"ret", " ", "i32", " ", "%", "r">>,
                   <<"}">> >>,
      functions |-> << >>],
     [type |-> "string",
      lines |-> << <<"(", "module", " ", "(", "func", ")", ")">> >>,
      functions |-> << >>],
     [type |-> "object", lines |-> << >>, functions |-> << >>]}

\* registered tags, a tag that nothing is known under, and names that
\* Object.prototype has
SourceFormats ==
    {"ios-llvm", "android-art", "wasm", "java-hotspot", "spidermonkey",
     "llvm", "constructor", "toString", "__proto__"}

ConversionOptions ==
    {[targetFormat |-> Undefined, optimizationLevel |-> Undefined,
      preserveSemantics |-> Undefined, cache |-> c] : c \in {Undefined, "false"}}

\* new JITConverter(), new ObjectiveCConverter(), new SwiftConverter()
NewConverters ==
    [jit   |-> [conversionCache |-> EmptyMap,
                stats |-> [conversions |-> 0, cacheHits |-> 0,
                           supportedPlatforms |-> supportedFormats]],
     objc  |-> [conversionCache |-> EmptyMap,
                stats |-> [conversions |-> 0, cacheHits |-> 0, totalLines |-> 0]],
     swift |-> [conversionCache |-> EmptyMap,
                stats |-> [conversions |-> 0, cacheHits |-> 0, totalLines |-> 0]]]

Conversion(op, instructions, sourceFormat, options, outcome, message, ran, returned) ==
    [op |-> op, instructions |-> instructions, sourceFormat |-> sourceFormat,
     options |-> options, outcome |-> outcome, message |-> message,
     ran |-> ran, returned |-> returned]

InitBridge ==
    /\ converters = NewConverters
    /\ conversion = Conversion("none", Undefined, Undefined, Undefined, "none",
                               Undefined, << >>, NoResult)
    /\ compilationCache = Idle /\ stats = Idle /\ pending = Idle
    /\ lastCall = Idle /\ completed = Idle /\ session = Idle
    /\ translationCache = Idle /\ clock = Idle /\ translation = Idle
    /\ issued = Idle /\ responses = Idle /\ parsing = Idle
    /\ inflight = Idle /\ handling = Idle

\* JITConverter.convert(instructions, sourceFormat, options): the converters
\* and the record of the call after it.  Every await of convert waits for a
\* promise that is settled, and the caller awaits convert.
JITConverterConvert(instructions, sourceFormat, options) ==
    LET cache    == OptionOr(options.cache, "true")
        cacheKey == generateConversionKey(instructions, sourceFormat, options)
        lowered  == Lowered(sourceFormat, instructions)
        result   == convertToNodeJS(lowered.value)
        Done(outcome, message, ran, returned) ==
            Conversion("convert", instructions, sourceFormat, options, outcome,
                       message, ran, returned)
    IN  IF FormatEntry(sourceFormat) = Undefined
        THEN [converters |-> converters,
              conversion |->
                  Done("threw", "Unsupported source format: " \o sourceFormat,
                       << >>, NoResult)]
        ELSE IF cache = "true"
                /\ cacheKey \in DOMAIN converters.jit.conversionCache
        THEN [converters |->
                  [converters EXCEPT !.jit.stats.cacheHits = @ + 1],
              conversion |->
                  Done("hit", Undefined, <<"cache lookup">>,
                       converters.jit.conversionCache[cacheKey])]
        ELSE IF lowered.threw
        THEN [converters |-> converters,
              conversion |->
                  Done("threw", "JIT conversion failed: " \o lowered.message,
                       <<"cache lookup", "lowering">>, NoResult)]
        ELSE IF result.threw
        THEN [converters |-> converters,
              conversion |->
                  Done("threw", "JIT conversion failed: " \o result.message,
                       <<"cache lookup", "lowering", "convertToNodeJS">>,
                       NoResult)]
        ELSE [converters |->
                  [converters EXCEPT
                      !.jit.conversionCache =
                          IF cache = "true" THEN MapSet(@, cacheKey, result.value)
                          ELSE @,
                      !.jit.stats.conversions = @ + 1],
              conversion |->
                  Done("converted", Undefined,
                       <<"cache lookup", "lowering", "convertToNodeJS">>,
                       result.value)]

\* a convert() call of a caller that does nothing else
ConvertCall(instructions, sourceFormat, options) ==
    LET after == JITConverterConvert(instructions, sourceFormat, options)
    IN  /\ after.converters.jit.stats.conversions <= MaxConversions
        /\ after.converters.jit.stats.cacheHits <= MaxCacheHits
        /\ converters' = after.converters
        /\ conversion' = after.conversion
        /\ UNCHANGED <<engineVars, session, translatorVars, responses, parsing,
                       inflight, handling>>

JITConverterGetStats ==
    /\ conversion' =
           Conversion("getStats", Undefined, Undefined, Undefined, "returned",
               Undefined, << >>,
               [conversions |-> converters.jit.stats.conversions,
                cacheHits   |-> converters.jit.stats.cacheHits,
                supportedPlatforms |-> converters.jit.stats.supportedPlatforms,
                cacheSize   |->
                    Cardinality(DOMAIN converters.jit.conversionCache),
                cacheHitRate |->
                    IF converters.jit.stats.conversions > 0
                    THEN Fraction(converters.jit.stats.cacheHits * 100,
                                  converters.jit.stats.conversions)
                    ELSE Fraction(0, 1)])
    /\ UNCHANGED <<converters, engineVars, session, translatorVars, responses,
                   parsing, inflight, handling>>

JITConverterClearCache ==
    /\ converters' = [converters EXCEPT !.jit.conversionCache = EmptyMap]
    /\ conversion' = Conversion("clearCache", Undefined, Undefined, Undefined,
                                "returned", Undefined, << >>, NoResult)
    /\ UNCHANGED <<engineVars, session, translatorVars, responses, parsing,
                   inflight, handling>>

NextBridge ==
    \/ \E instructions \in InstructionSets, sourceFormat \in SourceFormats,
          options \in ConversionOptions :
           ConvertCall(instructions, sourceFormat, options)
    \/ JITConverterGetStats
    \/ JITConverterClearCache

SpecBridge == InitBridge /\ [][NextBridge]_vars

\* C14: convert with a format tag that is not one of the registered formats
\* throws the unsupported-format error before it looks into the cache and
\* before anything is lowered, and conversionCache, conversions and cacheHits
\* are as they were.
C14_UnregisteredFormatIsRefused ==
    [][\A instructions \in InstructionSets, sourceFormat \in SourceFormats,
          options \in ConversionOptions :
          (/\ ConvertCall(instructions, sourceFormat, options)
           /\ \A i \in 1..Len(supportedFormats) :
                  supportedFormats[i] # sourceFormat)
          => /\ conversion'.outcome = "threw"
             /\ conversion'.message
                    = "Unsupported source format: " \o sourceFormat
             /\ conversion'.ran = << >>
             /\ converters' = converters]_vars

\* C22: every instruction that a registered lowering function produces has
\* an opcode of the vocabulary load, store, add, sub, mul, div, call, return,
\* branch, loop, and convertInstructionToJS writes a statement for it, not
\* the comment of an unknown instruction.
C22_LoweredOpcodesAreInTheVocabulary ==
    (/\ conversion.op = "convert"
     /\ conversion.outcome = "converted"
     /\ FormatEntry(conversion.sourceFormat) = "lowering")
    => LET functions ==
               Lowered(conversion.sourceFormat,
                       conversion.instructions).value.functions
       IN  \A f \in DOMAIN functions :
               \A k \in DOMAIN functions[f].instructions :
                   /\ functions[f].instructions[k].op \in
                          {"load", "store", "add", "sub", "mul", "div",
                           "call", "return", "branch", "loop"}
                   /\ conversion.returned.code[f][k][1] # "//"

-----------------------------------------------------------------------------
(* server.js: the handlers of POST /jit/compile, /jit/convert-objc,        *)
(* /jit/convert-swift and /jit/convert                                     *)
(*                                                                         *)
(* The handlers are async functions and are started in the order in which  *)
(* the requests arrived.  Nothing in server.js or in the components makes  *)
(* the handler of a request wait for the handler of another: a handler     *)
(* that is suspended at `await this.compileWithV8(...)` resumes when Node   *)
(* runs its continuation, and the handler of a request that came with it   *)
(* on the same connection is started before that.  The requests of a run   *)
(* arrive within the same hour.                                            *)

MaxArrivals == 2

\* 'x'.repeat(1024 * 1024 + 1): a word one character longer than a megabyte
Oversized ==
    LET RECURSIVE Repeat(_, _)
        Repeat(s, n) ==
            IF n = 0 THEN ""
            ELSE IF n % 2 = 1 THEN Repeat(s, n - 1) \o s
            ELSE LET half == Repeat(s, n \div 2) IN half \o half
    IN  Repeat("x", 1024 * 1024 + 1)

\* The requests that clients send: the route and req.body.  A field that
\* the body does not have is undefined.
Requests ==
    LET String(lines) ==
            [type |-> "string", lines |-> lines, functions |-> << >>]
        Missing == [type |-> "undefined", lines |-> << >>, functions |-> << >>]
        Compile(code) ==
            [route |-> "/jit/compile",
             body |-> [code |-> code, instructions |-> Missing,
                       sourceFormat |-> Undefined,
                       optimizationLevel |-> Undefined]]
        Convert(route, code) ==
            [route |-> route,
             body |-> [code |-> code, instructions |-> Missing,
                       sourceFormat |-> Undefined,
                       optimizationLevel |-> Undefined]]
    IN  <<Compile(String(<<<<"1", "+", "2">>>>)),
          Compile(String(<<<<"function", " ", "f", "(", ")", " ", "{">>>>)),
          Compile(String(<<<<Oversized>>>>)),
          Compile(Missing),
          Convert("/jit/convert-swift",
                  String(<<<<"class", " ", "A", " ", "{">>, <<"}">>>>)),
          Convert("/jit/convert-swift", String(<<<<Oversized>>>>)),
          Convert("/jit/convert-objc", String(<<<<Oversized>>>>)),
          [route |-> "/jit/convert",
           body |-> [code |-> Missing, instructions |-> String(<<<<Oversized>>>>),
                     sourceFormat |-> "java-hotspot",
                     optimizationLevel |-> Undefined]]>>

\* the main loop of parseObjectiveC and of parseSwift, from the turn that p
\* is at
RECURSIVE ParsedBy(_)
ParsedBy(p) ==
    CHOOSE parsed \in
        {IF turn.outcome = "parsing" /\ turn.i <= Len(turn.lines)
         THEN ParsedBy(IF turn.converter = "ObjectiveCConverter"
                       THEN parseObjectiveCLine(turn)
                       ELSE parseSwiftLine(turn))
         ELSE turn : turn \in {p}} : TRUE

\* ObjectiveCConverter.convert and SwiftConverter.convert, named "objc" and
\* "swift": the converters after the call and whether it threw.  The handlers
\* leave the option cache at its default.
SourceConvert(name, code, options) ==
    LET cacheKey == [code |-> code.lines, options |-> options]
        originalLines == Len(code.lines)
        Converted(parsed) ==
            IF parsed.outcome = "failed"
            THEN [converters |-> converters, threw |-> TRUE]
            ELSE [converters |->
                      [converters EXCEPT
                          ![name].conversionCache =
                              MapSet(@, cacheKey,
                                  [success |-> "true",
                                   warnings |-> parsed.result.warnings,
                                   metadata |->
                                       [originalLines |-> originalLines]]),
                          ![name].stats.conversions = @ + 1,
                          ![name].stats.totalLines = @ + originalLines],
                  threw |-> FALSE]
    IN  IF cacheKey \in DOMAIN converters[name].conversionCache
        THEN [converters |->
                  [converters EXCEPT ![name].stats.cacheHits = @ + 1],
              threw |-> FALSE]
        ELSE CHOOSE converted \in
                 {Converted(parsed) : parsed \in
                     {ParsedBy(ParseRun(IF name = "objc"
                                        THEN "ObjectiveCConverter"
                                        ELSE "SwiftConverter",
                                        code.lines,
                                        IF name = "objc" THEN ObjectiveCModule
                                        ELSE SwiftModule))}} : TRUE

\* iosTranslator.translate(jitResult, { target, preservePerformance: true })
\* with target at its default 'ios': the cache of the translator after the
\* call.  The translator is given the text of the engine, each chunk a token
\* and the JIT hints as the templates they are.
Translating(jitResult) ==
    LET code  == jitResult.optimizedCode
        inner == IF jitResult.jitEnabled = "true"
                 THEN SubSeq(code, Len(jitHintsPre) + 1, Len(code) - 5)
                 ELSE code
        tokens == [i \in 1..Len(inner) |-> Token(inner[i])]
        asElements ==
            [optimizedCode |->
                 IF jitResult.jitEnabled = "true"
                 THEN <<Template("JIT_PRE", "plain")>> \o tokens
                      \o <<Template("JIT_POST", "plain")>>
                 ELSE tokens,
             jitEnabled |-> jitResult.jitEnabled]
        options == [target |-> "ios", preservePerformance |-> "true",
                    enablePolyfills |-> Undefined,
                    optimizeForSize |-> Undefined]
        cacheKey == generateTranslationKey(asElements, options, clock)
    IN  IF cacheKey \in DOMAIN translationCache THEN translationCache
        ELSE MapSet(translationCache, cacheKey,
                    Translated(asElements, options))

\* res.status(status).json(...): the answer, with the outcome of compile()
\* for the request and the requests that were in flight when its handler
\* started
Answered(arrived, behind, status, success, error, compiled) ==
    Append(responses,
           [id |-> arrived.id, request |-> arrived.request,
            response |-> [status |-> status, success |-> success,
                          error |-> error],
            compiled |-> compiled, behind |-> behind])

InitServer ==
    /\ compilationCache = EmptyMap
    /\ stats = [totalCompilations |-> 0, cacheHits |-> 0,
                averageCompileTime |-> Fraction(0, 1)]
    /\ pending = << >>
    /\ lastCall = Call("none", << >>, Undefined, "none", << >>, NoResult)
    /\ completed = EmptyMap
    /\ translationCache = EmptyMap
    /\ clock = 0
    /\ converters = NewConverters
    /\ conversion = Conversion("none", Undefined, Undefined, Undefined, "none",
                               Undefined, << >>, NoResult)
    /\ inflight = << >>
    /\ handling = << >>
    /\ responses = << >>
    /\ session = Idle /\ translation = Idle /\ issued = Idle /\ parsing = Idle

\* a client sends a request
Arrive(request) ==
    /\ Len(inflight) + Len(handling) + Len(responses) < MaxArrivals
    /\ inflight' = Append(inflight,
           [id |-> Len(inflight) + Len(handling) + Len(responses) + 1,
            request |-> request])
    /\ UNCHANGED <<engineVars, session, translatorVars, responses, parsing,
                   converters, conversion, handling>>

\* app.post('/jit/compile') for language 'javascript', up to the await in
\* compile() or, when compile() returns or throws without it, to the answer
PostCompile ==
    /\ inflight # << >>
    /\ Requests[Head(inflight).request].route = "/jit/compile"
    /\ inflight' = Tail(inflight)
    /\ UNCHANGED <<session, clock, translation, issued, parsing, converters,
                   conversion>>
    /\ LET arrived == Head(inflight)
           body == Requests[arrived.request].body
           RECURSIVE Text(_)
           Text(lines) ==
               IF lines = << >> THEN << >>
               ELSE IF Len(lines) = 1 THEN lines[1]
               ELSE lines[1] \o <<"\n">> \o Text(Tail(lines))
           code == Text(body.code.lines)
           options ==
               [optimizationLevel |-> OptionOr(body.optimizationLevel, "O2"),
                enableJIT |-> "true", timeout |-> 30000, cache |-> Undefined]
           Refused(error) ==
               /\ responses' = Answered(arrived, Tail(inflight), 400, Undefined,
                                        error, "none")
               /\ UNCHANGED <<engineVars, translationCache, handling>>
       IN  IF body.code.type # "string" \/ code = << >>
           THEN Refused("Invalid input")
           ELSE IF TextLength(code) > 1024 * 1024
           THEN Refused("Code too large")
           ELSE /\ compile(code, options)
                /\ CASE lastCall'.outcome = "awaiting" ->
                            /\ handling' = Append(handling,
                                   [id |-> arrived.id,
                                    request |-> arrived.request,
                                    behind |-> Tail(inflight)])
                            /\ UNCHANGED <<responses, translationCache>>
                     [] lastCall'.outcome = "threw" ->
                            /\ responses' =
                                   Answered(arrived, Tail(inflight), 500,
                                            "false", "Compilation failed",
                                            "threw")
                            /\ UNCHANGED <<translationCache, handling>>
                     [] lastCall'.outcome = "hit" ->
                            /\ translationCache' =
                                   Translating(lastCall'.returned)
                            /\ responses' =
                                   Answered(arrived, Tail(inflight), 200,
                                            "true", Undefined, "hit")
                            /\ UNCHANGED handling

\* the rest of the handler of the oldest request that is suspended in
\* compile()
PostCompileAfterAwait ==
    /\ handling # << >>
    /\ compileAfterAwait
    /\ handling' = Tail(handling)
    /\ UNCHANGED <<inflight, session, clock, translation, issued, parsing,
                   converters, conversion>>
    /\ IF lastCall'.outcome = "compiled"
       THEN /\ translationCache' = Translating(lastCall'.returned)
            /\ responses' = Answered(Head(handling), Head(handling).behind, 200,
                                     "true", Undefined, "compiled")
       ELSE /\ responses' = Answered(Head(handling), Head(handling).behind, 500,
                                     "false", "Compilation failed", "threw")
            /\ UNCHANGED translationCache

\* app.post('/jit/convert-objc') and app.post('/jit/convert-swift')
PostConvertSource ==
    /\ inflight # << >>
    /\ Requests[Head(inflight).request].route
           \in {"/jit/convert-objc", "/jit/convert-swift"}
    /\ inflight' = Tail(inflight)
    /\ UNCHANGED <<engineVars, session, translatorVars, parsing, conversion,
                   handling>>
    /\ LET arrived == Head(inflight)
           route == Requests[arrived.request].route
           code == Requests[arrived.request].body.code
           converted ==
               SourceConvert(
                   IF route = "/jit/convert-objc" THEN "objc" ELSE "swift",
                   code,
                   IF route = "/jit/convert-objc"
                   THEN [enableFoundationPolyfills |-> "true",
                         preserveComments |-> "false",
                         targetFormat |-> "javascript"]
                   ELSE [enableFoundationPolyfills |-> "true",
                         preserveComments |-> "false",
                         targetFormat |-> "javascript", strictMode |-> "true"])
       IN  IF code.type # "string" \/ \A i \in 1..Len(code.lines) :
                                          code.lines[i] = << >>
           THEN /\ responses' = Answered(arrived, Tail(inflight), 400,
                                         Undefined, "Invalid input", "none")
                /\ UNCHANGED converters
           ELSE \E result \in {converted} :
                /\ converters' = result.converters
                /\ responses' =
                       IF result.threw
                       THEN Answered(arrived, Tail(inflight), 500, "false",
                                     IF route = "/jit/convert-objc"
                                     THEN "Objective-C conversion failed"
                                     ELSE "Swift conversion failed", "none")
                       ELSE Answered(arrived, Tail(inflight), 200, "true",
                                     Undefined, "none")

\* app.post('/jit/convert')
PostConvert ==
    /\ inflight # << >>
    /\ Requests[Head(inflight).request].route = "/jit/convert"
    /\ inflight' = Tail(inflight)
    /\ UNCHANGED <<engineVars, session, translatorVars, parsing, handling>>
    /\ LET arrived == Head(inflight)
           instructions == Requests[arrived.request].body.instructions
           sourceFormat == Requests[arrived.request].body.sourceFormat
           options == [enableFoundationPolyfills |-> "true",
                       targetFormat |-> "javascript"]
           bySource ==
               SourceConvert(IF sourceFormat = "swift" THEN "swift" ELSE "objc",
                             instructions, options)
           byFormat ==
               JITConverterConvert(instructions, sourceFormat,
                   [targetFormat |-> "nodejs", optimizationLevel |-> "O2",
                    preserveSemantics |-> "true", cache |-> Undefined])
           Answer(threw) ==
               IF threw
               THEN Answered(arrived, Tail(inflight), 500, "false",
                             "Conversion failed", "none")
               ELSE Answered(arrived, Tail(inflight), 200, "true", Undefined,
                             "none")
       IN  IF \/ instructions.type = "undefined"
              \/ instructions.type = "string"
                 /\ \A i \in 1..Len(instructions.lines) :
                        instructions.lines[i] = << >>
              \/ sourceFormat \in {Undefined, ""}
           THEN /\ responses' = Answered(arrived, Tail(inflight), 400,
                                         Undefined, "Invalid input", "none")
                /\ UNCHANGED <<converters, conversion>>
           ELSE IF sourceFormat \in {"objectivec", "objc", "swift"}
           THEN \E result \in {bySource} :
                /\ converters' = result.converters
                /\ responses' = Answer(result.threw)
                /\ UNCHANGED conversion
           ELSE \E result \in {byFormat} :
                /\ converters' = result.converters
                /\ conversion' = result.conversion
                /\ responses' = Answer(result.conversion.outcome = "threw")

NextServer ==
    \/ \E request \in 1..Len(Requests) : Arrive(request)
    \/ PostCompile
    \/ PostCompileAfterAwait
    \/ PostConvertSource
    \/ PostConvert

SpecServer == InitServer /\ [][NextServer]_vars

C15_OversizedInputIsRefused ==
    [][\A arrived \in {inflight[i] : i \in {1} \cap DOMAIN inflight} :
          LET request == Requests[arrived.request]
              input == IF request.route = "/jit/convert"
                       THEN request.body.instructions
                       ELSE request.body.code
          IN  (/\ inflight' = Tail(inflight)
               /\ input.type = "string"
               /\ TextLength(JoinLines(input.lines)) - 1 > 1024 * 1024)
              => /\ Len(responses') = Len(responses) + 1
                 /\ responses'[Len(responses')].id = arrived.id
                 /\ responses'[Len(responses')].response.status = 400
                 /\ responses'[Len(responses')].response.success # "true"
                 /\ compilationCache' = compilationCache
                 /\ stats' = stats
                 /\ translationCache' = translationCache
                 /\ converters' = converters]_vars

\* C19: a request is processed to its end before the next begins.  While
\* the handler of a request is between its cache lookup and its cache write
\* no other handler starts, and of two requests for the same compilation that
\* were in flight together the one answered second was answered from the
\* cache entry of the first.
C19_OneRequestAtATime ==
    [][/\ pending # << >> =>
              /\ Len(inflight') >= Len(inflight)
              /\ SubSeq(inflight', 1, Len(inflight)) = inflight
       /\ \A i, j \in 1..Len(responses') :
              (/\ i < j
               /\ responses'[i].request = responses'[j].request
               /\ Requests[responses'[i].request].route = "/jit/compile"
               /\ responses'[i].response.status = 200)
              => responses'[j].compiled = "hit"]_vars

-----------------------------------------------------------------------------
(* SwiftConverter: convertMethodBody, one replace group at a time          *)

\* this.typeMappings
typeMappings ==
    [swiftType \in {"String", "Int", "Double", "Float", "Bool", "Array",
                    "Dictionary", "Set", "Optional", "Any", "AnyObject",
                    "Void", "nil", "true", "false"} |->
        CASE swiftType \in {"Int", "Double", "Float"}     -> "Number"
          [] swiftType = "Bool"                           -> "Boolean"
          [] swiftType \in {"Dictionary", "AnyObject"}    -> "Object"
          [] swiftType \in {"Optional", "nil"}            -> "null"
          [] swiftType = "Any"                            -> "any"
          [] swiftType = "Void"                           -> "void"
          [] OTHER                                        -> swiftType]

\* the replace groups of convertMethodBody in the order of the statements,
\* each with the chunks of which its patterns need at least one
methodBodyRules ==
    << [name |-> "closures",              needs |-> {"{"}],
       [name |-> "for_in",                needs |-> {"for"}],
       [name |-> "computed_properties",   needs |-> {"var"}],
       [name |-> "error_handling",
        needs |-> {"throws", "throw", "do", "catch"}],
       [name |-> "variable_declarations", needs |-> {"let", "var"}],
       [name |-> "type_mappings",         needs |-> DOMAIN typeMappings],
       [name |-> "string_interpolation",  needs |-> {"\\"}],
       [name |-> "optional_chaining",     needs |-> {"?"}],
       [name |-> "nil_coalescing",        needs |-> {"?"}],
       [name |-> "force_unwrapping",      needs |-> {"!"}],
       [name |-> "guard",                 needs |-> {"guard"}],
       [name |-> "if_let",                needs |-> {"if"}],
       [name |-> "properties",
        needs |-> {"count", "isEmpty", "contains"}],
       [name |-> "method_mappings",
        needs |-> {"append", "removeFirst", "removeLast", "insert", "remove",
                   "count", "isEmpty", "first", "last"}],
       [name |-> "print",                 needs |-> {"print"}],
       [name |-> "self",                  needs |-> {"self"}],
       [name |-> "super",                 needs |-> {"super"}],
       [name |-> "increment",             needs |-> {"="}],
       [name |-> "control_structures",    needs |-> {"if", "while", "else"}],
       [name |-> "statement_termination", needs |-> {"\n"}],
       [name |-> "return_termination",    needs |-> {"return"}],
       [name |-> "double_semicolons",     needs |-> {";"}] >>

\* jsBody = jsBody.replace(...) of the group rule, on a body of chunks (a
\* word, a punctuation character or a white space character each).  A group
\* none of whose needed chunks is in the body leaves it as it is; of the
\* others the groups are given whose patterns the bodies of InitBody can
\* match.
MethodBodyRule(rule, jsBody) ==
    LET Has(chunks) == \E i \in DOMAIN jsBody : jsBody[i] \in chunks
        \* the delimiter of a template literal, U+0060, by its name: a
        \* string of this notation cannot hold the character
        Backtick == "U+0060"
        \* the string interpolation replace from chunk i on: a literal with
        \* an interpolation becomes a template literal with a placeholder
        RECURSIVE Interpolated(_, _)
        Interpolated(s, i) ==
            LET open == IndexOf(s, "\"", i)
                close == IF open = 0 THEN 0 ELSE IndexOf(s, "\"", open + 1)
                slash == IF close = 0 THEN 0 ELSE IndexOf(s, "\\", open + 1)
                paren == IF slash = 0 THEN 0 ELSE IndexOf(s, ")", slash + 2)
            IN  IF /\ slash # 0 /\ slash + 1 < close /\ s[slash + 1] = "("
                   /\ paren > slash + 2 /\ paren < close
                THEN Slice(s, i, open - 1) \o <<Backtick>>
                         \o Slice(s, open + 1, slash - 1) \o <<"$", "{">>
                         \o Slice(s, slash + 2, paren - 1) \o <<"}">>
                         \o Slice(s, paren + 1, close - 1) \o <<Backtick>>
                         \o Interpolated(s, close + 1)
                ELSE Slice(s, i, Len(s))
        \* print\s*\( -> console.log(
        RECURSIVE Logged(_, _)
        Logged(s, i) ==
            IF i > Len(s) THEN << >>
            ELSE IF /\ s[i] = "print" /\ SkipSpaces(s, i + 1) <= Len(s)
                    /\ s[SkipSpaces(s, i + 1)] = "("
                 THEN <<"console", ".", "log", "(">>
                          \o Logged(s, SkipSpaces(s, i + 1) + 1)
                 ELSE <<s[i]>> \o Logged(s, i + 1)
        return == IndexOf(jsBody, "return", 1)
    IN  CASE ~Has(rule.needs) -> jsBody
          [] rule.name = "type_mappings" ->
                 \* new RegExp of \b swiftType \b with flag g, for every entry
                 [i \in DOMAIN jsBody |->
                     IF jsBody[i] \in DOMAIN typeMappings
                     THEN typeMappings[jsBody[i]] ELSE jsBody[i]]
          [] rule.name = "string_interpolation" -> Interpolated(jsBody, 1)
          [] rule.name = "print" -> Logged(jsBody, 1)
          [] /\ rule.name = "return_termination"
             /\ IndexOf(jsBody, "return", return + 1) = 0
             /\ return < Len(jsBody) - 1
             /\ IsSpace(jsBody[return + 1])
             /\ \A i \in return + 2..Len(jsBody) :
                    jsBody[i] \notin {";", "\n"} ->
                 \* the return replace: 'return $1;'
                 jsBody \o <<";">>
          [] /\ rule.name = "double_semicolons"
             /\ \A i \in 1..Len(jsBody) - 1 :
                    jsBody[i] # ";" \/ jsBody[i + 1] # ";" -> jsBody

\* a call of convertMethodBody with one of the bodies
InitBody ==
    /\ session \in {[input |-> body, stage |-> "called", rules |-> << >>,
                     jsBody |-> body, returned |-> Undefined] :
                        body \in
        { << >>,
          <<"return", " ", "\"", "Max", ":", " ", "\\", "(", "Int", ".", "max",
            ")", "\"">>,
          <<"print", "(", "\"", "Hello", ",", " ", "\\", "(", "name", ")", "\"",
            ")">>,
          <<"print", " ", "(", "\"", "An", " ", "Int", "\"", ")">>,
          <<"return", " ", "nil">>,
          <<"return", " ", "total">>,
          <<"print", "(", "Double", "(", "x", ")", ")", ";">> }}
    /\ compilationCache = Idle /\ stats = Idle /\ pending = Idle
    /\ lastCall = Idle /\ completed = Idle
    /\ translationCache = Idle /\ clock = Idle /\ translation = Idle
    /\ issued = Idle /\ responses = Idle /\ parsing = Idle
    /\ converters = Idle /\ conversion = Idle
    /\ inflight = Idle /\ handling = Idle

\* convertMethodBody(body) up to its first replace
convertMethodBody ==
    /\ session.stage = "called"
    /\ session' =
           IF session.input = << >>
           THEN [session EXCEPT !.stage = "returned",
                                !.returned = <<"return", " ", "null", ";">>]
           ELSE [session EXCEPT !.stage = "replacing"]
    /\ UNCHANGED <<engineVars, translatorVars, responses, parsing, serverVars>>

\* the next replace group of convertMethodBody
Replace ==
    /\ session.stage = "replacing"
    /\ Len(session.rules) < Len(methodBodyRules)
    /\ LET rule == methodBodyRules[Len(session.rules) + 1]
       IN  session' = [session EXCEPT
               !.rules = Append(@, rule.name),
               !.jsBody = MethodBodyRule(rule, @)]
    /\ UNCHANGED <<engineVars, translatorVars, responses, parsing, serverVars>>

\* return jsBody || 'return null;'
ReturnBody ==
    /\ session.stage = "replacing"
    /\ Len(session.rules) = Len(methodBodyRules)
    /\ session' = [session EXCEPT
           !.stage = "returned",
           !.returned = IF session.jsBody = << >>
                        THEN <<"return", " ", "null", ";">> ELSE session.jsBody]
    /\ UNCHANGED <<engineVars, translatorVars, responses, parsing, serverVars>>

NextBody == convertMethodBody \/ Replace \/ ReturnBody

SpecBody == InitBody /\ [][NextBody]_vars

\* C21: in convertMethodBody the string interpolation is rewritten before
\* the type names are substituted: when the substitution of the type names
\* acts, the rewrite of the interpolations has acted already and no
\* interpolation delimiter \( is left in the body.
C21_InterpolationBeforeTypeNames ==
    [][(/\ Replace
        /\ session'.rules[Len(session'.rules)] = "type_mappings")
       => /\ \E i \in DOMAIN session.rules :
                 session.rules[i] = "string_interpolation"
          /\ \A i \in 1..Len(session.jsBody) - 1 :
                 ~(session.jsBody[i] = "\\" /\ session.jsBody[i + 1] = "(")]_vars

-----------------------------------------------------------------------------
(* JITPhoneClient: _makeRequest, its attempts and the waits between them   *)

MaxCalls == 2

\* new JITPhoneClient(options), options being the sequence of the value of
\* options.retries, empty when it has none; this.retries is
\* options.retries || 3.  No request has been made.
InitClient ==
    /\ session \in
           {[retries |-> IF options = << >> \/ options[1] = 0 THEN 3
                         ELSE options[1],
             options |-> options, requests |-> 0, calls |-> 0,
             phase |-> "idle", attempt |-> 0, fetched |-> 0, slept |-> << >>,
             failures |-> << >>, result |-> Undefined] :
                options \in {<< >>, <<-1>>, <<0>>, <<1>>, <<2>>, <<3>>}}
    /\ compilationCache = Idle /\ stats = Idle /\ pending = Idle
    /\ lastCall = Idle /\ completed = Idle
    /\ translationCache = Idle /\ clock = Idle /\ translation = Idle
    /\ issued = Idle /\ responses = Idle /\ parsing = Idle
    /\ converters = Idle /\ conversion = Idle
    /\ inflight = Idle /\ handling = Idle

\* for (let attempt = ...; attempt < this.retries; ...): the loop goes into
\* its body, or the function comes to its end and returns undefined
LoopTest(client, attempt) ==
    IF attempt < client.retries
    THEN [client EXCEPT !.attempt = attempt, !.phase = "fetching"]
    ELSE [client EXCEPT !.attempt = attempt, !.phase = "ended",
                        !.result = "returned undefined"]

\* _makeRequest(method, endpoint, data) of a caller that awaits it, up to
\* the first await this._fetch
MakeRequest ==
    /\ session.phase \in {"idle", "ended"}
    /\ session.calls < MaxCalls
    /\ session' = LoopTest([session EXCEPT !.calls = @ + 1, !.fetched = 0,
                                           !.slept = << >>,
                                           !.failures = << >>,
                                           !.result = Undefined], 0)
    /\ UNCHANGED <<engineVars, translatorVars, responses, parsing, serverVars>>

\* one turn of the loop from the settling of this._fetch: the response is
\* ok and its body is JSON, or the response is not ok, or the body of an ok
\* response is not JSON, or the fetch is rejected
Fetched(outcome) ==
    /\ session.phase = "fetching"
    /\ LET counted == [session EXCEPT
                          !.fetched = @ + 1,
                          !.requests = IF outcome \in {"ok", "ok, not JSON"}
                                       THEN @ + 1 ELSE @]
           failed == [counted EXCEPT !.failures = Append(@, outcome)]
           Pow(k) == IF k = 0 THEN 1 ELSE IF k = 1 THEN 2 ELSE IF k = 2 THEN 4
                     ELSE 2 * 2 * 2 * 2 ^ (k - 3)
       IN  session' =
               IF outcome = "ok"
               THEN [counted EXCEPT !.phase = "ended",
                                    !.result = "returned response"]
               ELSE IF session.attempt = session.retries - 1
               THEN [failed EXCEPT !.phase = "ended",
                                   !.result = "threw " \o outcome]
               ELSE [failed EXCEPT
                        !.phase = "sleeping",
                        !.slept = Append(@, Pow(session.attempt) * 1000)]
    /\ UNCHANGED <<engineVars, translatorVars, responses, parsing, serverVars>>

\* the timer of this._sleep fires: attempt++ and the test of the loop
Woken ==
    /\ session.phase = "sleeping"
    /\ session' = LoopTest(session, session.attempt + 1)
    /\ UNCHANGED <<engineVars, translatorVars, responses, parsing, serverVars>>

NextClient ==
    \/ MakeRequest
    \/ \E outcome \in {"ok", "not ok", "ok, not JSON", "rejected"} :
           Fetched(outcome)
    \/ Woken

SpecClient == InitClient /\ [][NextClient]_vars

\* C23: _makeRequest makes at most this.retries attempts; on the first
\* attempt that succeeds it returns the response and makes no other; after
\* the k-th failed attempt (k = 0, 1, ...) that is not the last it waits
\* 2^k seconds; after the last failed attempt it throws the error of that
\* attempt and does not wait; and for every configured value of retries it
\* ends by returning a response or by throwing.
C23_RetriesWithBackoff ==
    /\ session.fetched <= session.retries \/ session.fetched = 0
    /\ Len(session.slept) <= Len(session.failures)
    /\ \A k \in DOMAIN session.slept : session.slept[k] = 2 ^ (k - 1) * 1000
    /\ session.phase = "sleeping" =>
           /\ Len(session.slept) = Len(session.failures)
           /\ session.fetched < session.retries
    /\ session.phase = "ended" =>
           \/ /\ session.result = "returned response"
              /\ session.fetched = Len(session.failures) + 1
           \/ /\ session.failures # << >>
              /\ session.result =
                     "threw " \o session.failures[Len(session.failures)]
              /\ session.fetched = session.retries
              /\ Len(session.slept) = Len(session.failures) - 1

=============================================================================
